---- MODULE Spec2Model ----
(***************************************************************************)
(* A model of the astro-optimizer scripts: the rewrite rules and the       *)
(* transform run of apply_optimizations.py, and the analyzers of           *)
(* analyze.py.                                                             *)
(*                                                                         *)
(* A text is a sequence of tokens. A token is a fragment of source text    *)
(* that the regular expressions and substring tests of the scripts treat   *)
(* as a unit ("<img", ">", "/", a quote, " loading=", ...); the text is    *)
(* the concatenation of its tokens. The fragments the rules insert are     *)
(* themselves token sequences (they bring quotes with them), so a rule's   *)
(* output is again a text the other rules can read.                        *)
(***************************************************************************)
EXTENDS Integers, Sequences, FiniteSets, TLC

(***************************************************************************)
(* Bounds of the model.                                                    *)
(***************************************************************************)
\* longest text drawn as the input of a rewrite rule
MaxLen == 5
\* last value of the wall clock, in seconds since the start of the run
MaxClock == 1

(***************************************************************************)
(* Tokens.                                                                 *)
(***************************************************************************)
GT == ">"
SLASH == "/"
QUOTE == "\""
SPACE == " "

\* str.lower() and re.IGNORECASE, token by token
Lower(t) ==
  CASE t = "<IMG" -> "<img"
    [] t = "<Image" -> "<image"
    [] t = "HERO" -> "hero"
    [] t = " DEFER" -> " defer"
    [] t = "@FONT-FACE" -> "@font-face"
    [] OTHER -> t

\* the substrings (of those the scripts test for) that a token contains
NeedlesOf(t) ==
  CASE t = " loading=" -> {"loading="}
    [] t = " decoding=" -> {"decoding="}
    [] t = " fetchpriority=" -> {"fetchpriority"}
    [] t = "hero" -> {"hero"}
    [] t = "main-image" -> {"main-image"}
    [] t = "async" -> {"async"}
    [] t = " defer" -> {"defer"}
    [] t = "font-display:auto;" -> {"font-display"}
    [] t = "\n  font-display: swap;\n" -> {"font-display"}
    [] t = "<img" -> {"<img"}
    [] t = "<Image" -> {"Image"}
    [] t = "<script" -> {"<script"}
    [] t = "@font-face" -> {"@font-face"}
    [] t = " width=" -> {"width="}
    [] t = " height=" -> {"height="}
    [] t = " style=\"aspect-ratio:1\"" -> {"aspect-ratio"}
    [] t = "src:url(/f.woff2);" -> {"src:url"}
    [] t = "fonts.googleapis.com" -> {"fonts.googleapis.com"}
    [] t = "rel=\"preload\"" -> {"rel=\"preload\""}
    [] t = "as=\"font\"" -> {"as=\"font\""}
    [] t = "rel=\"preconnect\"" -> {"rel=\"preconnect\""}
    [] t = "prefetch" -> {"prefetch"}
    [] t = "content-visibility" -> {"content-visibility"}
    [] t = "image:" -> {"image:"}
    [] t = "compressHTML" -> {"compress", "compressHTML"}
    [] t = "analytics" -> {"analytics"}
    [] t = "setTimeout" -> {"setTimeout"}
    [] OTHER -> {}

\* needle in tag.lower()
HasLower(tag, needle) == \E i \in 1..Len(tag) : needle \in NeedlesOf(Lower(tag[i]))

\* needle in tag
Has(tag, needle) == \E i \in 1..Len(tag) : needle \in NeedlesOf(tag[i])

Min(S) == CHOOSE x \in S : \A y \in S : x <= y

MinOrZero(S) == IF S = {} THEN 0 ELSE Min(S)

\* the first index j >= i with s[j] in T, or 0
FirstFrom(s, i, T) == MinOrZero({j \in i..Len(s) : s[j] \in T})

\* x, or y when x is 0
OrElse(x, y) == IF x # 0 THEN x ELSE y

\* s[:-n]
DropLast(s, n) == SubSeq(s, 1, Len(s) - n)

\* tag.endswith('/>')
EndsSlashGT(tag) == Len(tag) >= 2 /\ tag[Len(tag) - 1] = SLASH /\ tag[Len(tag)] = GT

(***************************************************************************)
(* The regular expressions of the rewrite rules. Each operator gives the   *)
(* index of the last token of the match that starts at token i, or 0 when  *)
(* no match starts there.                                                  *)
(***************************************************************************)

\* <img[^>]*/?>  (IGNORECASE): from "<img" to the first ">"
ImgMatchEnd(s, i) ==
  IF Lower(s[i]) = "<img" THEN FirstFrom(s, i + 1, {GT}) ELSE 0

\* the words of the alternation (?:hero|banner|featured|lcp|main-image)
HeroWords == {"hero", "main-image"}

\* [^"']*(?:hero|...)[^"']*["'][^>]*)(/?>) after the opening quote at k + 1,
\* the closing quote being at q (0: there is none): 0 or the match's end
HeroValueEnd(s, k, q) ==
  IF q # 0 /\ (\E j \in (k + 2)..(q - 1) : Lower(s[j]) \in HeroWords)
  THEN FirstFrom(s, q + 1, {GT})
  ELSE 0

\* (<open[^>]*(?:class|id)=["'][^"']*(?:hero|...)[^"']*["'][^>]*)(/?>):
\* the attribute at k is the one the match uses; 0 or the match's end
HeroAttrEnd(s, i, k) ==
  IF /\ k + 1 <= Len(s)
     /\ \A j \in (i + 1)..(k - 1) : s[j] # GT
     /\ Lower(s[k]) = " class="
     /\ s[k + 1] = QUOTE
  THEN HeroValueEnd(s, k, FirstFrom(s, k + 2, {QUOTE}))
  ELSE 0

\* the first [^>]* is greedy: the last attribute that gives a match is used
RECURSIVE HeroLastAttrEnd(_, _, _)
HeroLastAttrEnd(s, i, k) ==
  IF k <= i THEN 0
  ELSE OrElse(HeroAttrEnd(s, i, k), HeroLastAttrEnd(s, i, k - 1))

HeroMatchEnd(open, s, i) ==
  IF Lower(s[i]) = open THEN HeroLastAttrEnd(s, i, Len(s)) ELSE 0

\* @font-face\s*\{[^}]*\}  (IGNORECASE | DOTALL)
RECURSIVE SkipSpace(_, _)
SkipSpace(s, i) ==
  IF i <= Len(s) /\ s[i] = SPACE THEN SkipSpace(s, i + 1) ELSE i

\* \{[^}]*\} at b
BlockEnd(s, b) ==
  IF b <= Len(s) /\ s[b] = "{" THEN FirstFrom(s, b + 1, {"}"}) ELSE 0

FontMatchEnd(s, i) ==
  IF Lower(s[i]) = "@font-face" THEN BlockEnd(s, SkipSpace(s, i + 1)) ELSE 0

\* <script[^>]*src=["']https?://[^"']+["'][^>]*>  (IGNORECASE)
\* [^"']+["'][^>]*> after "https://" at k + 2, the closing quote being at
\* q (0: there is none): 0 or the match's end
UrlEnd(s, k, q) ==
  IF q # 0 /\ q >= k + 4 THEN FirstFrom(s, q + 1, {GT}) ELSE 0

ScriptAttrEnd(s, i, k) ==
  IF /\ k + 2 <= Len(s)
     /\ \A j \in (i + 1)..(k - 1) : s[j] # GT
     /\ Lower(s[k]) = " src="
     /\ s[k + 1] = QUOTE
     /\ Lower(s[k + 2]) = "https://"
  THEN UrlEnd(s, k, FirstFrom(s, k + 3, {QUOTE}))
  ELSE 0

\* the first [^>]* is greedy: the last src attribute that gives a match is used
RECURSIVE ScriptLastAttrEnd(_, _, _)
ScriptLastAttrEnd(s, i, k) ==
  IF k <= i THEN 0
  ELSE OrElse(ScriptAttrEnd(s, i, k), ScriptLastAttrEnd(s, i, k - 1))

ScriptMatchEnd(s, i) ==
  IF Lower(s[i]) = "<script" THEN ScriptLastAttrEnd(s, i, Len(s)) ELSE 0

(***************************************************************************)
(* The rewrite rules of apply_optimizations.py. A rule gives a record      *)
(* [text, changes]: the new text and the change descriptions, in order.    *)
(***************************************************************************)
FetchpriorityInsert == <<" fetchpriority=", QUOTE, "high", QUOTE>>
LazyInsert == <<" loading=", QUOTE, "lazy", QUOTE>>
DecodingInsert == <<" decoding=", QUOTE, "async", QUOTE>>
FontDisplayInsert == <<"\n  font-display: swap;\n">>
DeferInsert == <<" defer">>

LazyDesc == "Added loading='lazy' to img tag"
DecodingDesc == "Added decoding='async' to img tag"
FontDisplayDesc == "Added font-display: swap to @font-face"
DeferDesc == "Added defer to external script tag"
HeroDesc(open) ==
  IF open = "<img" THEN "Added fetchpriority='high' to hero/banner class"
  ELSE "Added fetchpriority='high' to Astro Image component"

NoChange(tag) == [text |-> tag, changes |-> <<>>]

\* add_priority: group 1 is the match without its final ">", group 2 is ">"
add_priority(open, m) ==
  IF ~HasLower(DropLast(m, 1), "fetchpriority")
  THEN [text |-> DropLast(m, 1) \o FetchpriorityInsert \o <<GT>>,
        changes |-> <<HeroDesc(open)>>]
  ELSE NoChange(m)

hero_indicators == {"hero", "banner", "featured", "lcp", "above-fold", "fetchpriority"}

\* add_lazy without its test for a loading attribute, for comparison
add_lazy_unguarded(tag) ==
  IF \E ind \in hero_indicators : HasLower(tag, ind) THEN NoChange(tag)
  ELSE IF EndsSlashGT(tag)
       THEN [text |-> DropLast(tag, 2) \o LazyInsert \o <<SPACE, SLASH, GT>>,
             changes |-> <<LazyDesc>>]
  ELSE IF tag[Len(tag)] = GT
       THEN [text |-> DropLast(tag, 1) \o LazyInsert \o <<GT>>, changes |-> <<LazyDesc>>]
  ELSE NoChange(tag)

\* add_lazy that writes ">" where the tag ended with "/>", for comparison
add_lazy_closing(tag) ==
  IF HasLower(tag, "loading=") THEN NoChange(tag)
  ELSE IF \E ind \in hero_indicators : HasLower(tag, ind) THEN NoChange(tag)
  ELSE IF EndsSlashGT(tag)
       THEN [text |-> DropLast(tag, 2) \o LazyInsert \o <<GT>>, changes |-> <<LazyDesc>>]
  ELSE IF tag[Len(tag)] = GT
       THEN [text |-> DropLast(tag, 1) \o LazyInsert \o <<GT>>, changes |-> <<LazyDesc>>]
  ELSE NoChange(tag)

add_lazy(tag) ==
  IF HasLower(tag, "loading=") THEN NoChange(tag)
  ELSE IF \E ind \in hero_indicators : HasLower(tag, ind) THEN NoChange(tag)
  ELSE IF EndsSlashGT(tag)
       THEN [text |-> DropLast(tag, 2) \o LazyInsert \o <<SPACE, SLASH, GT>>,
             changes |-> <<LazyDesc>>]
  ELSE IF tag[Len(tag)] = GT
       THEN [text |-> DropLast(tag, 1) \o LazyInsert \o <<GT>>, changes |-> <<LazyDesc>>]
  ELSE NoChange(tag)

\* add_decoding without its test for a decoding attribute, for comparison
add_decoding_unguarded(tag) ==
  IF EndsSlashGT(tag)
  THEN [text |-> DropLast(tag, 2) \o DecodingInsert \o <<SPACE, SLASH, GT>>,
        changes |-> <<DecodingDesc>>]
  ELSE IF tag[Len(tag)] = GT
       THEN [text |-> DropLast(tag, 1) \o DecodingInsert \o <<GT>>,
             changes |-> <<DecodingDesc>>]
  ELSE NoChange(tag)

add_decoding(tag) ==
  IF HasLower(tag, "decoding=") THEN NoChange(tag)
  ELSE IF EndsSlashGT(tag)
       THEN [text |-> DropLast(tag, 2) \o DecodingInsert \o <<SPACE, SLASH, GT>>,
             changes |-> <<DecodingDesc>>]
  ELSE IF tag[Len(tag)] = GT
       THEN [text |-> DropLast(tag, 1) \o DecodingInsert \o <<GT>>,
             changes |-> <<DecodingDesc>>]
  ELSE NoChange(tag)

add_display(rule) ==
  IF HasLower(rule, "font-display") THEN NoChange(rule)
  ELSE [text |-> DropLast(rule, 1) \o FontDisplayInsert \o <<"}">>,
        changes |-> <<FontDisplayDesc>>]

\* add_defer without its test for defer and async, for comparison
add_defer_unguarded(tag) ==
  [text |-> DropLast(tag, 1) \o DeferInsert \o <<GT>>, changes |-> <<DeferDesc>>]

add_defer(tag) ==
  IF HasLower(tag, "defer") \/ HasLower(tag, "async") THEN NoChange(tag)
  ELSE [text |-> DropLast(tag, 1) \o DeferInsert \o <<GT>>, changes |-> <<DeferDesc>>]

\* the patterns handed to re.sub, by name
Patterns == {"hero_img", "hero_Image", "lazy", "decoding", "font", "defer"}

MatchEnd(pat, s, i) ==
  CASE pat = "hero_img" -> HeroMatchEnd("<img", s, i)
    [] pat = "hero_Image" -> HeroMatchEnd("<image", s, i)
    [] pat = "lazy" -> ImgMatchEnd(s, i)
    [] pat = "decoding" -> ImgMatchEnd(s, i)
    [] pat = "font" -> FontMatchEnd(s, i)
    [] pat = "defer" -> ScriptMatchEnd(s, i)

Replace(pat, m) ==
  CASE pat = "hero_img" -> add_priority("<img", m)
    [] pat = "hero_Image" -> add_priority("<image", m)
    [] pat = "lazy" -> add_lazy(m)
    [] pat = "decoding" -> add_decoding(m)
    [] pat = "font" -> add_display(m)
    [] pat = "defer" -> add_defer(m)

\* two results, one after the other
Join(a, b) == [text |-> a.text \o b.text, changes |-> a.changes \o b.changes]

\* re.sub(pattern, callback, s): the leftmost matches, not overlapping, each
\* replaced by what the callback returns; the text from token i on, where e
\* is the end of the match that starts at i (0: none does)
RECURSIVE SubFrom(_, _, _)
SubAt(pat, s, i, e) ==
  IF e = 0
  THEN Join(NoChange(<<s[i]>>), SubFrom(pat, s, i + 1))
  ELSE Join(Replace(pat, SubSeq(s, i, e)), SubFrom(pat, s, e + 1))

SubFrom(pat, s, i) ==
  IF i > Len(s) THEN NoChange(<<>>) ELSE SubAt(pat, s, i, MatchEnd(pat, s, i))

ReSub(pat, s) == SubFrom(pat, s, 1)

\* the patterns of add_fetchpriority_to_hero_images, in order
hero_patterns == <<"hero_img", "hero_Image">>

\* for pattern, desc in hero_patterns: content = re.sub(...), on the text so
\* far and with the one list of changes
\* the result acc of the rewrites so far, and the result r of the next one
After(acc, r) == [text |-> r.text, changes |-> acc.changes \o r.changes]

RECURSIVE SubEach(_, _)
SubEach(pats, acc) ==
  IF pats = <<>> THEN acc
  ELSE SubEach(Tail(pats), After(acc, ReSub(Head(pats), acc.text)))

add_fetchpriority_to_hero_images(content) == SubEach(hero_patterns, NoChange(content))

add_loading_lazy_to_images(content) == ReSub("lazy", content)

add_decoding_async_to_images(content) == ReSub("decoding", content)

add_font_display_swap(content) == ReSub("font", content)

add_defer_to_external_scripts(content) == ReSub("defer", content)

\* the rewrite rules, by name
Rules ==
  {"add_fetchpriority_to_hero_images", "add_loading_lazy_to_images",
   "add_decoding_async_to_images", "add_font_display_swap",
   "add_defer_to_external_scripts"}

ApplyRule(rule, content) ==
  CASE rule = "add_fetchpriority_to_hero_images" -> add_fetchpriority_to_hero_images(content)
    [] rule = "add_loading_lazy_to_images" -> add_loading_lazy_to_images(content)
    [] rule = "add_decoding_async_to_images" -> add_decoding_async_to_images(content)
    [] rule = "add_font_display_swap" -> add_font_display_swap(content)
    [] rule = "add_defer_to_external_scripts" -> add_defer_to_external_scripts(content)

(***************************************************************************)
(* optimize_file, lines 142-160: the rules that are applied to a file of   *)
(* a given suffix, in order, each on the text the previous one produced.   *)
(* applied is the sequence of the rules that were called.                  *)
(***************************************************************************)
Called(acc, rule, r) ==
  [text |-> r.text, changes |-> acc.changes \o r.changes,
   applied |-> Append(acc.applied, rule)]

Then(acc, rule) == Called(acc, rule, ApplyRule(rule, acc.text))

\* the rules without the test of include_risky, for comparison
RulesForUngated(suffix, risky) ==
  IF suffix = ".astro"
  THEN <<"add_fetchpriority_to_hero_images", "add_loading_lazy_to_images",
         "add_decoding_async_to_images", "add_defer_to_external_scripts">>
  ELSE IF suffix \in {".css", ".scss"}
  THEN <<"add_font_display_swap">>
  ELSE <<>>

\* the rules with the risky one called first, for comparison
RulesForRiskyFirst(suffix, risky) ==
  IF suffix = ".astro"
  THEN (IF risky THEN <<"add_defer_to_external_scripts">> ELSE <<>>)
       \o <<"add_fetchpriority_to_hero_images", "add_loading_lazy_to_images",
            "add_decoding_async_to_images">>
  ELSE IF suffix \in {".css", ".scss"}
  THEN <<"add_font_display_swap">>
  ELSE <<>>

\* the rules optimize_file calls for a file of the suffix, in order
RulesFor(suffix, risky) ==
  IF suffix = ".astro"
  THEN <<"add_fetchpriority_to_hero_images", "add_loading_lazy_to_images",
         "add_decoding_async_to_images">>
       \o (IF risky THEN <<"add_defer_to_external_scripts">> ELSE <<>>)
  ELSE IF suffix \in {".css", ".scss"}
  THEN <<"add_font_display_swap">>
  ELSE <<>>

RECURSIVE ApplyAll(_, _)
ApplyAll(rules, acc) ==
  IF rules = <<>> THEN acc ELSE ApplyAll(Tail(rules), Then(acc, Head(rules)))

Transform(suffix, content, risky) ==
  ApplyAll(RulesFor(suffix, risky),
           [text |-> content, changes |-> <<>>, applied |-> <<>>])

(***************************************************************************)
(* The project. A file is named by its path relative to the project root;  *)
(* Walk is the order in which a directory walk (rglob) yields the files.   *)
(***************************************************************************)
Walk ==
  <<"src/pages/index.astro", "src/pages/blog/index.astro", "src/layouts/Layout.astro",
    "src/styles/global.css", "astro.config.mjs", "public/a.png">>

\* file_path.name
Name(f) ==
  CASE f \in {"src/pages/index.astro", "src/pages/blog/index.astro"} -> "index.astro"
    [] f = "src/layouts/Layout.astro" -> "Layout.astro"
    [] f = "src/styles/global.css" -> "global.css"
    [] f = "astro.config.mjs" -> "astro.config.mjs"
    [] f = "public/a.png" -> "a.png"

\* file_path.suffix.lower()
Suffix(f) ==
  CASE f \in {"src/pages/index.astro", "src/pages/blog/index.astro",
              "src/layouts/Layout.astro"} -> ".astro"
    [] f = "src/styles/global.css" -> ".css"
    [] f = "astro.config.mjs" -> ".mjs"
    [] f = "public/a.png" -> ".png"

UnderSrc(f) ==
  f \in {"src/pages/index.astro", "src/pages/blog/index.astro", "src/layouts/Layout.astro",
         "src/styles/global.css"}

\* the files of the project d that a walk of src/ yields with one of the
\* suffixes, in walk order: src_path.rglob("*.astro"), ...
Glob(d, suffixes) ==
  LET Sel(f) == f \in DOMAIN d /\ UnderSrc(f) /\ Suffix(f) \in suffixes
  IN SelectSeq(Walk, Sel)

\* optimize_project: the .astro files, then the .css and .scss files
Selected(d) == Glob(d, {".astro"}) \o Glob(d, {".css"}) \o Glob(d, {".scss"})

\* the files of the project of the transform runs
Files == {"src/pages/index.astro", "src/pages/blog/index.astro", "src/styles/global.css"}

\* the texts a file may hold when the first run starts
ImgText == <<"<img", " src=", QUOTE, "a.png", QUOTE, GT>>
ScriptText == <<"<script", " src=", QUOTE, "https://", "a.js", QUOTE, GT>>
PlainText == <<"x">>
FontText == <<"@font-face", SPACE, "{", "x", "}">>

InitialTexts(f) ==
  IF Suffix(f) = ".astro" THEN {ImgText, ScriptText, PlainText}
  ELSE {FontText, PlainText}

None == "None"
NoBackup == <<>>

\* backup_dir / f"{file_path.name}.{timestamp}.bak"
BackupPath(f, timestamp) == <<Name(f), timestamp>>

NewResult(f) == [file |-> f, changes |-> <<>>, backup |-> NoBackup, error |-> None]

NewResults(risky) ==
  [include_risky |-> risky, files_processed |-> <<>>, files_modified |-> <<>>,
   total_changes |-> 0, errors |-> <<>>]

\* number of transform runs over the project
MaxRuns == 2
\* number of file-system operations that fail, over all runs
MaxFaults == 1

(***************************************************************************)
(* State.                                                                  *)
(***************************************************************************)
VARIABLES
  disk,         \* the content of every file of the project
  at_start,     \* disk when the current run started
  backups,      \* the backup directory: backup path -> content
  backup_dir,   \* whether the backup directory exists
  clock,        \* datetime.now(), in seconds
  run,          \* the number of the current run
  todo,         \* optimize_project: the files still to process
  cur,          \* optimize_project: the file being processed
  pc,           \* the position in optimize_project / optimize_file
  content,      \* optimize_file: the rewritten text
  all_changes,  \* optimize_file: the changes of the rewrite
  applied,      \* optimize_file: the rules it called
  result,       \* optimize_file: the result it returns
  results,      \* optimize_project: the results it returns
  log,          \* what the current run did so far, in order
  faults,       \* the number of operations that failed so far
  \* the rewrite rules on their own
  family,       \* the kind of text that was drawn
  input,        \* the text
  phase,        \* "input", then "output"
  rule,         \* what was applied
  outs,         \* the results, in order
  \* analyze.py
  unreadable,   \* the files whose read_text raises
  analyzer,     \* analyze_project: the index of the next analyzer
  findings,     \* report.findings
  summary,      \* report.summary
  warnings,     \* the analyzers that failed, as printed to stderr
  \* detect_js_patterns.py
  js_todo,      \* analyze_project: the files still to scan
  all_findings, \* analyze_project: the findings so far
  js_report,    \* what analyze_project returns
  \* main() of analyze.py and apply_optimizations.py
  script,       \* the script that runs
  argv,         \* its command line
  main_pc,      \* where main is
  exit_code,    \* the exit code of the process
  \* generate_preloads.py
  pre_todo,      \* analyze_project: the files still to read
  all_preloads,  \* analyze_project: the directives of the stylesheets
  page_specific, \* analyze_project: the directives of the pages, by page
  pre_warnings,  \* the files that could not be processed, as printed to stderr
  pre_report     \* what analyze_project returns

run_vars ==
  <<disk, at_start, backups, backup_dir, clock, run, todo, cur, pc, content,
    all_changes, applied, result, results, log, faults>>

rule_vars == <<family, input, phase, rule, outs>>

analysis_vars == <<unreadable, analyzer, findings, summary, warnings>>

js_vars == <<js_todo, all_findings, js_report>>

\* the variables of the other scripts
main_vars == <<script, argv, main_pc, exit_code>>

preload_vars == <<pre_todo, all_preloads, page_specific, pre_warnings, pre_report>>

more_vars == <<js_vars, main_vars, preload_vars>>

vars == <<run_vars, rule_vars, analysis_vars, more_vars>>

\* what a transform run leaves alone
outside_run == <<rule_vars, analysis_vars, more_vars>>

InitRun ==
  /\ disk \in [Files -> UNION {InitialTexts(f) : f \in Files}]
  /\ \A f \in Files : disk[f] \in InitialTexts(f)
  /\ at_start = disk
  /\ backups = <<>>
  /\ backup_dir = FALSE
  /\ clock = 0
  /\ run = 1
  /\ todo = Selected(disk)
  /\ cur = None
  /\ pc = "loop"
  /\ content = <<>>
  /\ all_changes = <<>>
  /\ applied = <<>>
  /\ result = NewResult(None)
  /\ \E risky \in BOOLEAN : results = NewResults(risky)
  /\ log = <<>>
  /\ faults = 0

Event(kind) == log' = Append(log, <<kind, cur>>)

\* optimize_project: the head of the loops over the files
NextFile ==
  /\ pc = "loop" /\ todo # <<>>
  /\ cur' = Head(todo)
  /\ todo' = Tail(todo)
  /\ result' = NewResult(Head(todo))
  /\ pc' = "read"
  /\ log' = Append(log, <<"begin", Head(todo)>>)
  /\ UNCHANGED <<disk, at_start, backups, backup_dir, clock, run, content,
                 all_changes, applied, results, faults, outside_run>>

\* optimize_file: the except clause
Raise(error) ==
  /\ faults < MaxFaults
  /\ faults' = faults + 1
  /\ result' = [result EXCEPT !.error = error]
  /\ pc' = "return"

\* optimize_file without the test content != original_content, for comparison
ReadAndRewriteUntested ==
  /\ pc = "read"
  /\ LET t == Transform(Suffix(cur), disk[cur], results.include_risky)
     IN /\ content' = t.text
        /\ all_changes' = t.changes
        /\ applied' = t.applied
        /\ pc' = "mkdir"
  /\ UNCHANGED <<disk, at_start, backups, backup_dir, clock, run, todo, cur,
                 result, results, log, faults, outside_run>>

\* optimize_file: read_text, the rules, and the test content != original_content
ReadAndRewrite ==
  /\ pc = "read"
  /\ LET t == Transform(Suffix(cur), disk[cur], results.include_risky)
     IN /\ content' = t.text
        /\ all_changes' = t.changes
        /\ applied' = t.applied
        /\ pc' = IF t.text # disk[cur] THEN "mkdir" ELSE "return"
  /\ UNCHANGED <<disk, at_start, backups, backup_dir, clock, run, todo, cur,
                 result, results, log, faults, outside_run>>

ReadFails ==
  /\ pc = "read"
  /\ Raise("read failed")
  /\ Event("read failed")
  /\ UNCHANGED <<disk, at_start, backups, backup_dir, clock, run, todo, cur,
                 content, all_changes, applied, results, outside_run>>

\* backup_file: backup_dir.mkdir(parents=True, exist_ok=True)
Mkdir ==
  /\ pc = "mkdir"
  /\ backup_dir' = TRUE
  /\ pc' = "copy"
  /\ Event("mkdir")
  /\ UNCHANGED <<disk, at_start, backups, clock, run, todo, cur, content,
                 all_changes, applied, result, results, faults, outside_run>>

MkdirFails ==
  /\ pc = "mkdir" /\ ~backup_dir
  /\ Raise("mkdir failed")
  /\ Event("backup failed")
  /\ UNCHANGED <<disk, at_start, backups, backup_dir, clock, run, todo, cur,
                 content, all_changes, applied, results, outside_run>>

\* shutil.copy2(file_path, backup_path): writes the destination, whether or
\* not it exists
CopyTo(path, text) ==
  [p \in DOMAIN backups \cup {path} |-> IF p = path THEN text ELSE backups[p]]

\* backup_file: the timestamp, the path, the copy; result['backup']
Copy ==
  /\ pc = "copy"
  /\ LET backup_path == BackupPath(cur, clock)
     IN /\ backups' = CopyTo(backup_path, disk[cur])
        /\ result' = [result EXCEPT !.backup = backup_path]
  /\ pc' = "write"
  /\ Event("backup")
  /\ UNCHANGED <<disk, at_start, backup_dir, clock, run, todo, cur, content,
                 all_changes, applied, results, faults, outside_run>>

\* a copy whose failure is recorded but does not end optimize_file, for
\* comparison
CopyFailsOpen ==
  /\ pc = "copy"
  /\ faults < MaxFaults
  /\ faults' = faults + 1
  /\ result' = [result EXCEPT !.error = "copy failed"]
  /\ pc' = "write"
  /\ Event("backup failed")
  /\ UNCHANGED <<disk, at_start, backups, backup_dir, clock, run, todo, cur,
                 content, all_changes, applied, results, outside_run>>

CopyFails ==
  /\ pc = "copy"
  /\ Raise("copy failed")
  /\ Event("backup failed")
  /\ UNCHANGED <<disk, at_start, backups, backup_dir, clock, run, todo, cur,
                 content, all_changes, applied, results, outside_run>>

\* a write that does not wait for the backup, for comparison
WriteBeforeBackup ==
  /\ pc \in {"mkdir", "write"}
  /\ disk' = [disk EXCEPT ![cur] = content]
  /\ result' = [result EXCEPT !.changes = all_changes]
  /\ pc' = "return"
  /\ Event("write")
  /\ UNCHANGED <<at_start, backups, backup_dir, clock, run, todo, cur, content,
                 all_changes, applied, results, faults, outside_run>>

\* file_path.write_text(content); result['changes']
Write ==
  /\ pc = "write"
  /\ disk' = [disk EXCEPT ![cur] = content]
  /\ result' = [result EXCEPT !.changes = all_changes]
  /\ pc' = "return"
  /\ Event("write")
  /\ UNCHANGED <<at_start, backups, backup_dir, clock, run, todo, cur, content,
                 all_changes, applied, results, faults, outside_run>>

\* a failing write whose changes are already in the result, for comparison
WriteFailsChanged ==
  /\ pc = "write"
  /\ \E truncated \in BOOLEAN :
       disk' = IF truncated THEN [disk EXCEPT ![cur] = <<>>] ELSE disk
  /\ faults < MaxFaults
  /\ faults' = faults + 1
  /\ result' = [result EXCEPT !.changes = all_changes, !.error = "write failed"]
  /\ pc' = "return"
  /\ Event("write failed")
  /\ UNCHANGED <<at_start, backups, backup_dir, clock, run, todo, cur, content,
                 all_changes, applied, results, outside_run>>

\* write_text raises: before the file is opened (it keeps its content), or
\* after open() has truncated it
WriteFails ==
  /\ pc = "write"
  /\ \E truncated \in BOOLEAN :
       disk' = IF truncated THEN [disk EXCEPT ![cur] = <<>>] ELSE disk
  /\ Raise("write failed")
  /\ Event("write failed")
  /\ UNCHANGED <<at_start, backups, backup_dir, clock, run, todo, cur, content,
                 all_changes, applied, results, outside_run>>

\* optimize_project, lines 193-207 and 212-226: the result of the file
\* enters the results
Collect(res, r) ==
  LET modified == IF r.changes # <<>>
                  THEN Append(res.files_modified,
                              [file |-> r.file, changes |-> r.changes, backup |-> r.backup])
                  ELSE res.files_modified
      total == IF r.changes # <<>> THEN res.total_changes + Len(r.changes)
               ELSE res.total_changes
      errors == IF r.error # None
                THEN Append(res.errors, [file |-> r.file, error |-> r.error])
                ELSE res.errors
  IN [res EXCEPT !.files_processed = Append(@, r.file),
                 !.files_modified = modified,
                 !.total_changes = total,
                 !.errors = errors]

\* an optimize_project that stops at the first file with an error, for
\* comparison
ReturnAborting ==
  /\ pc = "return"
  /\ results' = Collect(results, result)
  /\ todo' = IF result.error # None THEN <<>> ELSE todo
  /\ pc' = "loop"
  /\ cur' = None
  /\ Event("report")
  /\ UNCHANGED <<disk, at_start, backups, backup_dir, clock, run, content,
                 all_changes, applied, result, faults, outside_run>>

Return ==
  /\ pc = "return"
  /\ results' = Collect(results, result)
  /\ pc' = "loop"
  /\ cur' = None
  /\ Event("report")
  /\ UNCHANGED <<disk, at_start, backups, backup_dir, clock, run, todo, content,
                 all_changes, applied, result, faults, outside_run>>

\* optimize_project returns
Finish ==
  /\ pc = "loop" /\ todo = <<>>
  /\ pc' = "done"
  /\ UNCHANGED <<disk, at_start, backups, backup_dir, clock, run, todo, cur,
                 content, all_changes, applied, result, results, log, faults, outside_run>>

\* the next run of the script over the project
StartRun ==
  /\ pc = "done" /\ run < MaxRuns
  /\ run' = run + 1
  /\ at_start' = disk
  /\ todo' = Selected(disk)
  /\ pc' = "loop"
  /\ \E risky \in BOOLEAN : results' = NewResults(risky)
  /\ log' = <<>>
  /\ content' = <<>>
  /\ all_changes' = <<>>
  /\ applied' = <<>>
  /\ result' = NewResult(None)
  /\ UNCHANGED <<disk, backups, backup_dir, clock, cur, faults, outside_run>>

\* a second passes; the clock is read by backup_file alone, so the seconds
\* that pass elsewhere are counted when backup_file is about to read it
Tick ==
  /\ clock < MaxClock
  /\ pc = "copy"
  /\ clock' = clock + 1
  /\ UNCHANGED <<disk, at_start, backups, backup_dir, run, todo, cur, pc,
                 content, all_changes, applied, result, results, log, faults, outside_run>>

(***************************************************************************)
(* The rewrite rules on their own: a rule is applied to a text, and then   *)
(* to its own output; and the rules of an .astro file are applied to one   *)
(* text under both policies.                                               *)
(***************************************************************************)
\* the fragments the texts of a family are made of
Fragments(fam) ==
  CASE fam = "hero" ->
         {<<"<img">>, <<"<Image">>, <<" class=", QUOTE, "hero">>, <<QUOTE>>, <<GT>>,
          <<SLASH>>, <<" fetchpriority=">>}
    [] fam = "img" ->
         {<<"<img">>, <<GT>>, <<SLASH>>, <<" loading=">>, <<" decoding=">>, <<"HERO">>}
    [] fam = "font" ->
         {<<"@font-face">>, <<SPACE>>, <<"{">>, <<"}">>, <<"font-display:auto;">>, <<"x">>}
    [] fam = "script" ->
         {<<"<script">>, <<" src=", QUOTE, "https://", "a.js">>, <<QUOTE>>, <<GT>>,
          <<" defer">>, <<"async">>}
    [] fam = "page" ->
         {<<"<img">>, <<"<script", " src=", QUOTE, "https://", "a.js">>, <<QUOTE>>, <<GT>>,
          <<" class=", QUOTE, "hero", QUOTE>>, <<" decoding=">>}
    [] fam = "value" ->
         {<<"<img">>, <<" class=", QUOTE>>, <<"hero", QUOTE>>, <<GT>>, <<" fetchpriority=">>,
          <<"x">>}

Families == {"hero", "img", "font", "script", "page"}

RECURSIVE Flatten(_)
Flatten(ss) == IF ss = <<>> THEN <<>> ELSE Head(ss) \o Flatten(Tail(ss))

\* the texts of at most MaxLen fragments
Texts(fam) == {Flatten(ss) : ss \in UNION {[1..n -> Fragments(fam)] : n \in 0..MaxLen}}

Call(r, text) == Then([text |-> text, changes |-> <<>>, applied |-> <<>>], r)

IdleRules ==
  /\ family = None /\ input = <<>> /\ phase = "idle" /\ rule = None
  /\ outs = <<>>

InitRules ==
  /\ family \in Families
  /\ input \in Texts(family)
  /\ phase = "input"
  /\ rule = None
  /\ outs = <<>>

\* the results of applying the rule r n times, each time to the text the
\* application before it returned
RECURSIVE Repeat(_, _, _)
RepeatAfter(r, a, n) == <<a>> \o Repeat(r, a.text, n)

Repeat(r, text, n) ==
  IF n = 0 THEN <<>> ELSE RepeatAfter(r, Call(r, text), n - 1)

\* the rule r on the text, and again on what it returns
Twice(r) ==
  /\ phase' = "output"
  /\ rule' = r
  /\ outs' = Repeat(r, input, 2)
  /\ UNCHANGED <<family, input, run_vars, analysis_vars, more_vars>>

RunFetchpriority ==
  /\ phase = "input" /\ family = "hero"
  /\ Twice("add_fetchpriority_to_hero_images")

RunLoadingLazy ==
  /\ phase = "input" /\ family = "img"
  /\ Twice("add_loading_lazy_to_images")

RunDecodingAsync ==
  /\ phase = "input" /\ family = "img"
  /\ Twice("add_decoding_async_to_images")

RunFontDisplay ==
  /\ phase = "input" /\ family = "font"
  /\ Twice("add_font_display_swap")

RunDefer ==
  /\ phase = "input" /\ family = "script"
  /\ Twice("add_defer_to_external_scripts")

\* optimize_file's rules on the text of an .astro file, under the default
\* policy and with include_risky
RunPolicies ==
  /\ phase = "input" /\ family = "page"
  /\ phase' = "output"
  /\ rule' = "optimize_file"
  /\ outs' = <<Transform(".astro", input, FALSE), Transform(".astro", input, TRUE)>>
  /\ UNCHANGED <<family, input, run_vars, analysis_vars, more_vars>>

\* the texts two runs are applied to: those with img tags and those with
\* script tags
InitTwice ==
  /\ family \in {"page", "script"}
  /\ input \in Texts(family)
  /\ phase = "input"
  /\ rule = None
  /\ outs = <<>>

\* the result a of optimize_file's rules on a text, and their result on the
\* text a left: what two runs with the same policy do to a file
Again(a, suffix, risky) == <<a, Transform(suffix, a.text, risky)>>

TwoRuns(fam, risky, name) ==
  /\ phase = "input" /\ family = fam
  /\ phase' = "output"
  /\ rule' = name
  /\ outs' = Again(Transform(".astro", input, risky), ".astro", risky)
  /\ UNCHANGED <<family, input, run_vars, analysis_vars, more_vars>>

\* the default policy, on the texts with img tags
RunDefaultTwice == TwoRuns("page", FALSE, "two runs")

\* include_risky, on the texts with script tags
RunRiskyTwice == TwoRuns("script", TRUE, "two runs, include_risky")

\* the texts of one pass: img tags whose attribute values may hold a ">"
InitPass ==
  /\ family = "value"
  /\ input \in Texts(family)
  /\ phase = "input"
  /\ rule = None
  /\ outs = <<>>

\* one pass of optimize_file's rules over the text of an .astro file
OnePass(risky, name) ==
  /\ phase = "input"
  /\ phase' = "output"
  /\ rule' = name
  /\ outs' = <<Transform(".astro", input, risky)>>
  /\ UNCHANGED <<family, input, run_vars, analysis_vars, more_vars>>

RunPassDefault == OnePass(FALSE, "one pass")

RunPassRisky == OnePass(TRUE, "one pass, include_risky")

IdleRun ==
  /\ disk = <<>> /\ at_start = <<>> /\ backups = <<>> /\ backup_dir = FALSE
  /\ clock = 0 /\ run = 0 /\ todo = <<>> /\ cur = None /\ pc = "idle"
  /\ content = <<>> /\ all_changes = <<>> /\ applied = <<>>
  /\ result = NewResult(None) /\ results = NewResults(FALSE)
  /\ log = <<>> /\ faults = 0

(***************************************************************************)
(* analyze.py. A finding is a record; its message and suggestion are fixed *)
(* by its type and are left out. line 0 stands for None (lines start at 1).*)
(***************************************************************************)
Finding(type, severity, risk, file, line, auto_fixable) ==
  [type |-> type, severity |-> severity, risk |-> risk, file |-> file, line |-> line,
   auto_fixable |-> auto_fixable]

\* the number of newline characters in a token
NewlinesIn(t) ==
  CASE t = "\n" -> 1
    [] t = "\n  font-display: swap;\n" -> 2
    [] OTHER -> 0

\* content[:n].count('\n'), n being the offset of token i
RECURSIVE NewlinesBefore(_, _)
NewlinesBefore(s, i) ==
  IF i <= 1 THEN 0 ELSE NewlinesIn(s[i - 1]) + NewlinesBefore(s, i - 1)

\* the files of the project d under src/ that are layouts:
\* rglob("**/layouts/*.astro") + rglob("Layout*.astro")
Layouts(d) ==
  IF "src/layouts/Layout.astro" \in DOMAIN d
  THEN <<"src/layouts/Layout.astro", "src/layouts/Layout.astro">>
  ELSE <<>>

\* project_path.glob("astro.config.*")
ConfigFiles(d) == IF "astro.config.mjs" \in DOMAIN d THEN <<"astro.config.mjs">> ELSE <<>>

\* public_path.rglob("*"), the files with an image suffix
PublicImages(d) ==
  LET Sel(f) == f \in DOMAIN d /\ ~UnderSrc(f) /\ Suffix(f) \in {".jpg", ".jpeg", ".png", ".gif"}
  IN SelectSeq(Walk, Sel)

Range(fs) == {fs[i] : i \in 1..Len(fs)}

\* analyze_images, lines 50-67: one finding for every img tag without
\* dimensions
has_dimensions(tag) ==
  (Has(tag, "width=") /\ Has(tag, "height=")) \/ Has(tag, "aspect-ratio")

ClsOfTag(f, s, i, tag) ==
  IF ~has_dimensions(tag) /\ ~Has(tag, "Image")
  THEN <<Finding("image_cls", "high", "safe", f, NewlinesBefore(s, i) + 1, FALSE)>>
  ELSE <<>>

RECURSIVE ClsFrom(_, _, _)
ClsAt(f, s, i, e) ==
  IF e = 0 THEN ClsFrom(f, s, i + 1)
  ELSE ClsOfTag(f, s, i, SubSeq(s, i, e)) \o ClsFrom(f, s, e + 1)

ClsFrom(f, s, i) ==
  IF i > Len(s) THEN <<>> ELSE ClsAt(f, s, i, ImgMatchEnd(s, i))

\* lines 69-80
LoadingOfFile(f, s) ==
  IF Has(s, "<img") /\ ~Has(s, "loading=")
  THEN <<Finding("image_loading", "medium", "safe", f, 0, TRUE)>>
  ELSE <<>>

\* lines 82-96
priority_patterns == {"hero", "banner", "header-image", "main-image", "lcp"}

PriorityOfFile(f, s) ==
  IF (\E pattern \in priority_patterns : HasLower(s, pattern)) /\ ~Has(s, "fetchpriority")
  THEN <<Finding("image_priority", "high", "safe", f, 0, TRUE)>>
  ELSE <<>>

ImagesOfFile(f, s) == ClsFrom(f, s, 1) \o LoadingOfFile(f, s) \o PriorityOfFile(f, s)

RECURSIVE ImagesOver(_, _)
ImagesOver(d, fs) ==
  IF fs = <<>> THEN <<>>
  ELSE ImagesOfFile(Head(fs), d[Head(fs)]) \o ImagesOver(d, Tail(fs))

\* lines 98-111
FormatOf(fs) ==
  [i \in 1..Len(fs) |-> Finding("image_format", "medium", "safe", fs[i], 0, FALSE)]

analyze_images(d) == ImagesOver(d, Glob(d, {".astro"})) \o FormatOf(PublicImages(d))

\* analyze_fonts
CssFiles(d) == Glob(d, {".css"}) \o Glob(d, {".scss"})

\* font_face_pattern matches somewhere in s
HasFontFaceSrc(s) ==
  \E i \in 1..Len(s) :
    /\ FontMatchEnd(s, i) # 0
    /\ \E j \in i..FontMatchEnd(s, i) : "src:url" \in NeedlesOf(Lower(s[j]))

ExternalOfFile(f, s) ==
  IF Has(s, "fonts.googleapis.com") \/ Has(s, "fonts.gstatic.com")
  THEN <<Finding("font_external", "high", "risky", f, 0, FALSE)>>
  ELSE <<>>

RECURSIVE ExternalOver(_, _)
ExternalOver(d, fs) ==
  IF fs = <<>> THEN <<>>
  ELSE ExternalOfFile(Head(fs), d[Head(fs)]) \o ExternalOver(d, Tail(fs))

fonts_preloaded(d) ==
  \E f \in Range(Layouts(d)) : Has(d[f], "rel=\"preload\"") /\ Has(d[f], "as=\"font\"")

PreloadOf(d) ==
  IF (\E f \in Range(CssFiles(d)) : HasFontFaceSrc(d[f])) /\ ~fonts_preloaded(d)
  THEN <<Finding("font_preload", "high", "safe", "src/layouts/", 0, TRUE)>>
  ELSE <<>>

DisplayOfFile(f, s) ==
  IF Has(s, "@font-face") /\ ~Has(s, "font-display")
  THEN <<Finding("font_display", "medium", "safe", f, 0, TRUE)>>
  ELSE <<>>

RECURSIVE DisplayOver(_, _)
DisplayOver(d, fs) ==
  IF fs = <<>> THEN <<>>
  ELSE DisplayOfFile(Head(fs), d[Head(fs)]) \o DisplayOver(d, Tail(fs))

analyze_fonts(d) ==
  ExternalOver(d, Glob(d, {".astro"})) \o PreloadOf(d) \o DisplayOver(d, CssFiles(d))

\* analyze_prefetch
PrefetchOf(f, s) ==
  IF ~Has(s, "prefetch")
  THEN <<Finding("prefetch_config", "medium", "safe", f, 0, TRUE)>>
  ELSE <<>>

analyze_prefetch(d) ==
  IF ConfigFiles(d) # <<>> THEN PrefetchOf(ConfigFiles(d)[1], d[ConfigFiles(d)[1]]) ELSE <<>>

\* analyze_preconnect: an origin is named by the token of its host
Hosts == {"a.js", "fonts.googleapis.com"}

\* the matches of origin_pattern in s
OriginsIn(s) == {s[i + 1] : i \in {j \in 1..(Len(s) - 1) : s[j] = "https://" /\ s[j + 1] \in Hosts}}

third_party_origins(d) == UNION {OriginsIn(d[f]) : f \in Range(Glob(d, {".astro"}))}

preconnected(d) ==
  UNION {IF Has(d[f], "rel=\"preconnect\"") THEN OriginsIn(d[f]) ELSE {} : f \in Range(Layouts(d))}

analyze_preconnect(d) ==
  IF third_party_origins(d) \ preconnected(d) # {}
  THEN <<Finding("preconnect", "medium", "safe", "src/layouts/", 0, TRUE)>>
  ELSE <<>>

\* analyze_scripts, lines 260-275: one finding for every third-party script
\* tag without defer and async
BlockingOfTag(f, s, i, tag) ==
  IF ~Has(tag, "defer") /\ ~Has(tag, "async")
  THEN <<Finding("script_blocking", "high", "risky", f, NewlinesBefore(s, i) + 1, TRUE)>>
  ELSE <<>>

RECURSIVE BlockingFrom(_, _, _)
BlockingAt(f, s, i, e) ==
  IF e = 0 THEN BlockingFrom(f, s, i + 1)
  ELSE BlockingOfTag(f, s, i, SubSeq(s, i, e)) \o BlockingFrom(f, s, e + 1)

BlockingFrom(f, s, i) ==
  IF i > Len(s) THEN <<>> ELSE BlockingAt(f, s, i, ScriptMatchEnd(s, i))

\* lines 277-292
tracking_patterns ==
  {"analytics", "gtag", "gtm", "facebook", "pixel", "hotjar", "intercom", "crisp", "drift"}

TrackingOfFile(f, s) ==
  IF /\ \E pattern \in tracking_patterns : HasLower(s, pattern)
     /\ ~Has(s, "setTimeout") /\ ~Has(s, "requestIdleCallback")
     /\ Has(s, "<script")
  THEN <<Finding("script_tracking", "medium", "risky", f, 0, FALSE)>>
  ELSE <<>>

RECURSIVE ScriptsOver(_, _)
ScriptsOver(d, fs) ==
  IF fs = <<>> THEN <<>>
  ELSE BlockingFrom(Head(fs), d[Head(fs)], 1) \o TrackingOfFile(Head(fs), d[Head(fs)])
       \o ScriptsOver(d, Tail(fs))

analyze_scripts(d) == ScriptsOver(d, Glob(d, {".astro"}))

\* analyze_css
analyze_css(d) ==
  IF ~\E f \in Range(CssFiles(d)) : Has(d[f], "content-visibility")
  THEN <<Finding("css_content_visibility", "low", "risky", "Global CSS", 0, FALSE)>>
  ELSE <<>>

\* analyze_astro_config
ConfigImageOf(f, s) ==
  IF ~Has(s, "image:") /\ ~Has(s, "astro:assets")
  THEN <<Finding("config_image", "medium", "safe", f, 0, TRUE)>>
  ELSE <<>>

ConfigCompressOf(f, s) ==
  IF ~Has(s, "compress") /\ ~Has(s, "compressHTML")
  THEN <<Finding("config_compress", "low", "safe", f, 0, TRUE)>>
  ELSE <<>>

analyze_astro_config(d) ==
  IF ConfigFiles(d) = <<>> THEN <<>>
  ELSE ConfigImageOf(ConfigFiles(d)[1], d[ConfigFiles(d)[1]])
       \o ConfigCompressOf(ConfigFiles(d)[1], d[ConfigFiles(d)[1]])

\* analyze_project: the list of the analyzers
analyzers ==
  <<"analyze_images", "analyze_fonts", "analyze_prefetch", "analyze_preconnect",
    "analyze_scripts", "analyze_css", "analyze_astro_config">>

Analyze(name, d) ==
  CASE name = "analyze_images" -> analyze_images(d)
    [] name = "analyze_fonts" -> analyze_fonts(d)
    [] name = "analyze_prefetch" -> analyze_prefetch(d)
    [] name = "analyze_preconnect" -> analyze_preconnect(d)
    [] name = "analyze_scripts" -> analyze_scripts(d)
    [] name = "analyze_css" -> analyze_css(d)
    [] name = "analyze_astro_config" -> analyze_astro_config(d)

\* the css files analyze_css reads: it stops at the first that mentions
\* content-visibility
RECURSIVE CssRead(_, _)
CssRead(d, fs) ==
  IF fs = <<>> THEN {}
  ELSE IF Head(fs) \notin unreadable /\ Has(d[Head(fs)], "content-visibility")
  THEN {Head(fs)}
  ELSE {Head(fs)} \cup CssRead(d, Tail(fs))

\* the files whose text the analyzer reads
Reads(name, d) ==
  CASE name = "analyze_images" -> Range(Glob(d, {".astro"}))
    [] name = "analyze_fonts" -> Range(CssFiles(d)) \cup Range(Glob(d, {".astro"}))
    [] name = "analyze_prefetch" -> Range(ConfigFiles(d))
    [] name = "analyze_preconnect" -> Range(Glob(d, {".astro"}))
    [] name = "analyze_scripts" -> Range(Glob(d, {".astro"}))
    [] name = "analyze_css" -> CssRead(d, CssFiles(d))
    [] name = "analyze_astro_config" -> Range(ConfigFiles(d))

\* read_text raises in the analyzer, which returns nothing
Raises(name, d) == Reads(name, d) \cap unreadable # {}

\* lines 386-398
Count(fs, P(_)) == Cardinality({i \in 1..Len(fs) : P(fs[i])})

Summary(fs) ==
  LET High(f) == f.severity = "high"
      Medium(f) == f.severity = "medium"
      Low(f) == f.severity = "low"
      Safe(f) == f.risk = "safe"
      Risky(f) == f.risk = "risky"
      Fixable(f) == f.auto_fixable
  IN [total |-> Len(fs),
      by_severity |-> [high |-> Count(fs, High), medium |-> Count(fs, Medium),
                       low |-> Count(fs, Low)],
      by_risk |-> [safe |-> Count(fs, Safe), risky |-> Count(fs, Risky)],
      auto_fixable |-> Count(fs, Fixable)]

\* the texts the files of the analysed project may hold; Absent: no file
Absent == <<"(no file)">>

TwoImgText == <<"<img", " src=", QUOTE, "a.png", QUOTE, GT, "\n", "<img", GT>>
SizedImgText == <<"x", "\n", "<img", " width=", " height=", " loading=", GT>>
TwoScriptText == ScriptText \o <<"\n">> \o ScriptText
HeroImgText == <<"<img", " class=", QUOTE, "hero", QUOTE, " width=", " height=", GT>>
TrackingText == <<"<script", GT, "analytics", "https://", "fonts.googleapis.com">>
\* a stylesheet with a block that declares font-display and one that does not
MixedFontText == <<"@font-face", "{", "font-display:auto;", "}", "@font-face", "{", "}">>

AnalysisTexts(f) ==
  CASE f = "src/pages/index.astro" ->
         {TwoImgText, SizedImgText, TwoScriptText, HeroImgText, TrackingText, PlainText}
    [] f = "src/pages/blog/index.astro" -> {ImgText, PlainText}
    [] f = "src/layouts/Layout.astro" ->
         {Absent, <<"rel=\"preload\"", "as=\"font\"">>,
          <<"rel=\"preconnect\"", "https://", "a.js">>}
    [] f = "src/styles/global.css" ->
         {<<"@font-face", "{", "src:url(/f.woff2);", "}">>,
          <<"@font-face", "{", "font-display:auto;", "}", "content-visibility">>,
          MixedFontText, PlainText}
    [] f = "astro.config.mjs" -> {Absent, PlainText, <<"prefetch", "image:", "compressHTML">>}
    [] f = "public/a.png" -> {Absent, PlainText}

AllFiles == Range(Walk)

\* the project whose files hold the texts t, without the absent files
Project(t) == [f \in {g \in AllFiles : t[g] # Absent} |-> t[f]]

InitAnalysis ==
  /\ \E t \in [AllFiles -> UNION {AnalysisTexts(f) : f \in AllFiles}] :
       /\ \A f \in AllFiles : t[f] \in AnalysisTexts(f)
       /\ disk = Project(t)
  /\ at_start = disk
  /\ unreadable \in {{}} \cup {{f} : f \in DOMAIN disk}
  /\ analyzer = 1
  /\ findings = <<>>
  /\ summary = <<>>
  /\ warnings = <<>>
  /\ backups = <<>> /\ backup_dir = FALSE
  /\ clock = 0 /\ run = 0 /\ todo = <<>> /\ cur = None /\ pc = "idle"
  /\ content = <<>> /\ all_changes = <<>> /\ applied = <<>>
  /\ result = NewResult(None) /\ results = NewResults(FALSE)
  /\ log = <<>> /\ faults = 0

\* analyze_project, lines 378-383: the next analyzer runs; its findings
\* are added
RunAnalyzer ==
  /\ analyzer \in 1..Len(analyzers)
  /\ ~Raises(analyzers[analyzer], disk)
  /\ findings' = findings \o Analyze(analyzers[analyzer], disk)
  /\ analyzer' = analyzer + 1
  /\ UNCHANGED <<unreadable, summary, warnings, run_vars, rule_vars, more_vars>>

\* the next analyzer raises: a warning goes to stderr
AnalyzerFails ==
  /\ analyzer \in 1..Len(analyzers)
  /\ Raises(analyzers[analyzer], disk)
  /\ warnings' = Append(warnings, analyzers[analyzer])
  /\ analyzer' = analyzer + 1
  /\ UNCHANGED <<unreadable, findings, summary, run_vars, rule_vars, more_vars>>

\* lines 385-400: the summary; the report is returned
Summarize ==
  /\ analyzer = Len(analyzers) + 1
  /\ summary' = Summary(findings)
  /\ analyzer' = analyzer + 1
  /\ UNCHANGED <<unreadable, findings, warnings, run_vars, rule_vars, more_vars>>

\* the report has been returned
Reported == analyzer = Len(analyzers) + 2

IdleAnalysis ==
  /\ unreadable = {} /\ analyzer = 0 /\ findings = <<>> /\ summary = <<>>
  /\ warnings = <<>>

(***************************************************************************)
(* detect_js_patterns.py. A finding is its pattern, severity, file and     *)
(* line; the texts that go with the pattern are left out.                  *)
(***************************************************************************)
\* PATTERNS, in order: of the js_patterns of a pattern, in order, those
\* that match a token of the texts, each named by the token it matches
PATTERNS ==
  <<[name |-> "accordion_toggle", severity |-> "high",
     js_patterns |-> <<".accordion", ".slideToggle">>],
    [name |-> "modal_dialog", severity |-> "high", js_patterns |-> <<>>],
    [name |-> "tabs", severity |-> "high", js_patterns |-> <<>>],
    [name |-> "smooth_scroll", severity |-> "high", js_patterns |-> <<>>],
    [name |-> "carousel_slider", severity |-> "medium", js_patterns |-> <<>>],
    [name |-> "sticky_header", severity |-> "high", js_patterns |-> <<>>],
    [name |-> "dark_mode", severity |-> "medium", js_patterns |-> <<>>],
    [name |-> "form_validation", severity |-> "medium", js_patterns |-> <<>>],
    [name |-> "tooltip", severity |-> "high", js_patterns |-> <<>>],
    [name |-> "animation_js", severity |-> "medium",
     js_patterns |-> <<"requestAnimationFrame">>],
    [name |-> "aspect_ratio_js", severity |-> "high", js_patterns |-> <<>>],
    [name |-> "container_query_js", severity |-> "medium", js_patterns |-> <<>>],
    [name |-> "counter_numbering", severity |-> "high", js_patterns |-> <<>>],
    [name |-> "view_transitions", severity |-> "low",
     js_patterns |-> <<"startViewTransition">>],
    [name |-> "scroll_driven_animation", severity |-> "medium", js_patterns |-> <<>>]>>

JsToHtmlCssFinding(pattern, severity, file, line) ==
  [pattern |-> pattern, severity |-> severity, file |-> file, line |-> line]

\* the first match in s of any of the js_patterns, whatever their order,
\* for comparison
FirstOfAny(js_patterns, s) == FirstFrom(s, 1, {js_patterns[k] : k \in 1..Len(js_patterns)})

\* matches[0].start() of the first of the js_patterns that has a match in
\* s (0: none has)
RECURSIVE FirstMatch(_, _)
FirstMatch(js_patterns, s) ==
  IF js_patterns = <<>> THEN 0
  ELSE OrElse(FirstFrom(s, 1, {Head(js_patterns)}), FirstMatch(Tail(js_patterns), s))

\* lines 589-609: the finding of a pattern whose first match is at i
OncePerPattern(pattern_def, f, s, i) ==
  IF i = 0 THEN <<>>
  ELSE <<JsToHtmlCssFinding(pattern_def.name, pattern_def.severity, f,
                            NewlinesBefore(s, i) + 1)>>

RECURSIVE ForPatterns(_, _, _)
ForPatterns(defs, f, s) ==
  IF defs = <<>> THEN <<>>
  ELSE OncePerPattern(Head(defs), f, s, FirstMatch(Head(defs).js_patterns, s))
       \o ForPatterns(Tail(defs), f, s)

\* analyze_file on a file that can be read
analyze_file(f, s) == ForPatterns(PATTERNS, f, s)

\* the files of a walk of src/, in walk order
JsWalk ==
  <<"src/scripts/app.js", "src/scripts/distance.js", "src/node_modules/lib.js",
    "src/pages/index.astro", "src/index.html">>

JsSuffix(f) ==
  CASE f \in {"src/scripts/app.js", "src/scripts/distance.js",
              "src/node_modules/lib.js"} -> ".js"
    [] f = "src/pages/index.astro" -> ".astro"
    [] f = "src/index.html" -> ".html"

extensions == <<".js", ".ts", ".jsx", ".tsx", ".astro", ".vue", ".svelte">>

\* src_path.rglob(f"*{ext}"): the files with their loop
JsGlob(d, ext, loop) ==
  LET Sel(f) == f \in DOMAIN d /\ JsSuffix(f) = ext
      found == SelectSeq(JsWalk, Sel)
  IN [i \in 1..Len(found) |-> <<found[i], loop>>]

RECURSIVE ForExtensions(_, _)
ForExtensions(d, exts) ==
  IF exts = <<>> THEN <<>>
  ELSE JsGlob(d, Head(exts), "extensions") \o ForExtensions(d, Tail(exts))

\* the files the two loops of analyze_project take, in order
JsScanList(d) == ForExtensions(d, extensions) \o JsGlob(d, ".html", "html")

\* "node_modules" in str(file) or "dist" in str(file); the path of the
\* project holds neither
InPath(f) ==
  CASE f = "src/node_modules/lib.js" -> {"node_modules"}
    [] f = "src/scripts/distance.js" -> {"dist"}
    [] OTHER -> {}

Skipped(item) ==
  item[2] = "extensions" /\ ({"node_modules", "dist"} \cap InPath(item[1]) # {})

\* lines 638-645
RECURSIVE Dedup(_, _)
Dedup(fs, seen) ==
  IF fs = <<>> THEN <<>>
  ELSE IF <<Head(fs).pattern, Head(fs).file>> \in seen THEN Dedup(Tail(fs), seen)
  ELSE <<Head(fs)>> \o Dedup(Tail(fs), seen \cup {<<Head(fs).pattern, Head(fs).file>>})

\* lines 647-659
JsSummary(fs) ==
  LET High(f) == f.severity = "high"
      Medium(f) == f.severity = "medium"
      Low(f) == f.severity = "low"
  IN [total |-> Len(fs),
      by_severity |-> [high |-> Count(fs, High), medium |-> Count(fs, Medium),
                       low |-> Count(fs, Low)],
      by_pattern |-> [n \in {fs[i].pattern : i \in 1..Len(fs)} |->
                        Cardinality({i \in 1..Len(fs) : fs[i].pattern = n})]]

\* lines 661-665; patterns_detected repeats the keys of by_pattern
JsReport(unique_findings) ==
  [findings |-> unique_findings, summary |-> JsSummary(unique_findings)]

\* the texts the files of the scanned project may hold
JsTexts(f) ==
  CASE f = "src/scripts/app.js" ->
         {<<".slideToggle", "\n", ".accordion">>,
          <<"requestAnimationFrame", "\n", "startViewTransition">>, PlainText, Absent}
    [] f = "src/scripts/distance.js" -> {<<".accordion">>, Absent}
    [] f = "src/node_modules/lib.js" -> {<<".accordion">>, Absent}
    [] f = "src/pages/index.astro" -> {<<".accordion", "\n", ".accordion">>, ImgText}
    [] f = "src/index.html" -> {<<"requestAnimationFrame">>, Absent}

JsFiles == Range(JsWalk)

JsProject(t) == [f \in {g \in JsFiles : t[g] # Absent} |-> t[f]]

InitJs ==
  /\ \E t \in [JsFiles -> UNION {JsTexts(f) : f \in JsFiles}] :
       /\ \A f \in JsFiles : t[f] \in JsTexts(f)
       /\ disk = JsProject(t)
  /\ at_start = disk
  /\ unreadable \in {{}} \cup {{f} : f \in DOMAIN disk}
  /\ js_todo = JsScanList(disk)
  /\ all_findings = <<>>
  /\ js_report = <<>>
  /\ analyzer = 0 /\ findings = <<>> /\ summary = <<>> /\ warnings = <<>>
  /\ backups = <<>> /\ backup_dir = FALSE
  /\ clock = 0 /\ run = 0 /\ todo = <<>> /\ cur = None /\ pc = "idle"
  /\ content = <<>> /\ all_changes = <<>> /\ applied = <<>>
  /\ result = NewResult(None) /\ results = NewResults(FALSE)
  /\ log = <<>> /\ faults = 0

\* what a scan of the JS patterns leaves alone
outside_js == <<run_vars, rule_vars, analysis_vars, main_vars, preload_vars>>

\* analyze_project, lines 624-636: the next file is analysed
JsScan ==
  /\ js_todo # <<>> /\ ~Skipped(Head(js_todo))
  /\ Head(js_todo)[1] \notin unreadable
  /\ all_findings' = all_findings \o analyze_file(Head(js_todo)[1], disk[Head(js_todo)[1]])
  /\ js_todo' = Tail(js_todo)
  /\ UNCHANGED <<js_report, outside_js>>

\* lines 627-628: continue
JsSkip ==
  /\ js_todo # <<>> /\ Skipped(Head(js_todo))
  /\ js_todo' = Tail(js_todo)
  /\ UNCHANGED <<all_findings, js_report, outside_js>>

\* analyze_file, lines 580-583: read_text raises, no findings are returned
JsReadFails ==
  /\ js_todo # <<>> /\ ~Skipped(Head(js_todo))
  /\ Head(js_todo)[1] \in unreadable
  /\ js_todo' = Tail(js_todo)
  /\ UNCHANGED <<all_findings, js_report, outside_js>>

\* lines 638-665: the report is returned
JsReturn ==
  /\ js_todo = <<>> /\ js_report = <<>>
  /\ js_report' = JsReport(Dedup(all_findings, {}))
  /\ UNCHANGED <<js_todo, all_findings, outside_js>>

JsReported == js_report # <<>>

IdleJs == js_todo = <<>> /\ all_findings = <<>> /\ js_report = <<>>

(***************************************************************************)
(* main() of analyze.py and of apply_optimizations.py: the checks they     *)
(* make before they start, the run, and the exit code of the process. The  *)
(* directories above the project hold no astro.config.* file.              *)
(***************************************************************************)
\* analyze.py, lines 32-38: the project root, when a marker file is there
find_astro_root(d) == IF ConfigFiles(d) # <<>> THEN "." ELSE None

MainTexts(f) ==
  CASE f = "src/pages/index.astro" -> {ImgText, ScriptText}
    [] f = "src/pages/blog/index.astro" -> {PlainText, Absent}
    [] f = "src/layouts/Layout.astro" -> {Absent}
    [] f = "src/styles/global.css" -> {FontText, PlainText}
    [] f = "astro.config.mjs" -> {PlainText, Absent}
    [] f = "public/a.png" -> {PlainText, Absent}

\* the value of exit_code while the process runs
Running == -1

\* the command lines: the path exists or not, and the flags
CommandLines(s) ==
  IF s = "analyze.py"
  THEN [exists : BOOLEAN, include_risky : {FALSE}, dry_run : {FALSE}]
  ELSE [exists : BOOLEAN, include_risky : BOOLEAN, dry_run : BOOLEAN]

\* the project at the path, which is empty when the path does not exist
ProjectAt(a, t) == IF a.exists THEN Project(t) ELSE <<>>

InitMain ==
  /\ script \in {"analyze.py", "apply_optimizations.py"}
  /\ argv \in CommandLines(script)
  /\ main_pc = "start"
  /\ exit_code = Running
  /\ \E t \in [AllFiles -> UNION {MainTexts(f) : f \in AllFiles}] :
       /\ \A f \in AllFiles : t[f] \in MainTexts(f)
       /\ disk = ProjectAt(argv, t)
  /\ at_start = disk
  /\ backups = <<>> /\ backup_dir = FALSE
  /\ clock = 0 /\ run = 0 /\ todo = <<>> /\ cur = None /\ pc = "idle"
  /\ content = <<>> /\ all_changes = <<>> /\ applied = <<>>
  /\ result = NewResult(None) /\ results = NewResults(FALSE)
  /\ log = <<>> /\ faults = 0

\* the process ends with the code
Exit(code) ==
  /\ exit_code' = code
  /\ main_pc' = "exit"
  /\ UNCHANGED <<script, argv, run_vars, rule_vars, analysis_vars, js_vars, preload_vars>>

\* analyze.py, lines 408-412: no project root is found
AnalyzeNoRoot ==
  /\ script = "analyze.py" /\ main_pc = "start"
  /\ find_astro_root(disk) = None
  /\ Exit(1)

\* line 414: analyze_project is called
AnalyzeStarts ==
  /\ script = "analyze.py" /\ main_pc = "start"
  /\ find_astro_root(disk) # None
  /\ analyzer' = 1
  /\ main_pc' = "run"
  /\ UNCHANGED <<script, argv, exit_code, unreadable, findings, summary, warnings,
                 run_vars, rule_vars, js_vars, preload_vars>>

\* lines 416-423: the report is printed
AnalyzePrints ==
  /\ script = "analyze.py" /\ main_pc = "run"
  /\ Reported
  /\ Exit(0)

\* apply_optimizations.py, lines 242-244: the path does not exist
ApplyNoPath ==
  /\ script = "apply_optimizations.py" /\ main_pc = "start"
  /\ ~argv.exists
  /\ Exit(1)

\* lines 246-250: a dry run is not implemented
ApplyDryRun ==
  /\ script = "apply_optimizations.py" /\ main_pc = "start"
  /\ argv.exists /\ argv.dry_run
  /\ Exit(0)

\* line 252: optimize_project is called
ApplyStarts ==
  /\ script = "apply_optimizations.py" /\ main_pc = "start"
  /\ argv.exists /\ ~argv.dry_run
  /\ run' = 1
  /\ todo' = Selected(disk)
  /\ pc' = "loop"
  /\ results' = NewResults(argv.include_risky)
  /\ main_pc' = "run"
  /\ UNCHANGED <<script, argv, exit_code, disk, at_start, backups, backup_dir, clock,
                 cur, content, all_changes, applied, result, log, faults,
                 rule_vars, analysis_vars, js_vars, preload_vars>>

\* line 253: the results are printed
ApplyPrints ==
  /\ script = "apply_optimizations.py" /\ main_pc = "run"
  /\ pc = "done"
  /\ Exit(0)

\* the texts of the project that is transformed and then analyzed
RoundTexts(f) ==
  CASE f = "src/pages/index.astro" -> {ImgText, ScriptText, HeroImgText, <<"x", "hero">>}
    [] f = "src/pages/blog/index.astro" -> {PlainText, Absent}
    [] f = "src/layouts/Layout.astro" -> {Absent}
    [] f = "src/styles/global.css" -> {FontText, PlainText}
    [] f = "astro.config.mjs" -> {PlainText, Absent}
    [] f = "public/a.png" -> {Absent}

\* apply_optimizations.py <project-path> --include-risky is about to run
InitRound ==
  /\ script = "apply_optimizations.py"
  /\ argv = [exists |-> TRUE, include_risky |-> TRUE, dry_run |-> FALSE]
  /\ main_pc = "start"
  /\ exit_code = Running
  /\ \E t \in [AllFiles -> UNION {RoundTexts(f) : f \in AllFiles}] :
       /\ \A f \in AllFiles : t[f] \in RoundTexts(f)
       /\ disk = ProjectAt(argv, t)
  /\ at_start = disk
  /\ backups = <<>> /\ backup_dir = FALSE
  /\ clock = 0 /\ run = 0 /\ todo = <<>> /\ cur = None /\ pc = "idle"
  /\ content = <<>> /\ all_changes = <<>> /\ applied = <<>>
  /\ result = NewResult(None) /\ results = NewResults(FALSE)
  /\ log = <<>> /\ faults = 0

\* the transform has ended with code 0; analyze.py <project-path> is run on
\* the project it left
AnalyzeAfter ==
  /\ script = "apply_optimizations.py" /\ main_pc = "exit" /\ exit_code = 0
  /\ script' = "analyze.py"
  /\ argv' = [exists |-> TRUE, include_risky |-> FALSE, dry_run |-> FALSE]
  /\ main_pc' = "start"
  /\ exit_code' = Running
  /\ UNCHANGED <<run_vars, rule_vars, analysis_vars, js_vars, preload_vars>>

IdleMain == script = None /\ argv = <<>> /\ main_pc = "idle" /\ exit_code = Running

(***************************************************************************)
(* generate_preloads.py. A directive is its href, as_type, type_attr,      *)
(* crossorigin, scope and source file; a link tag is the record of its     *)
(* attributes, and a snippet is the sequence of its tags, one on a line.   *)
(***************************************************************************)
PreloadDirective(href, as_type, type_attr, crossorigin, scope, source_file) ==
  [href |-> href, as_type |-> as_type, type_attr |-> type_attr,
   crossorigin |-> crossorigin, scope |-> scope, source_file |-> source_file]

\* the URL in the url(...) of a declaration
UrlOf(t) ==
  CASE t = "src:url(/f.woff2);" -> "/f.woff2"
    [] t = "src:url(/g.ttf);" -> "/g.ttf"
    [] t = "background:url(/bg.png);" -> "/bg.png"
    [] t = "background-image:url(img/h.jpg);" -> "img/h.jpg"
    [] t = "background:url(data:x);" -> "data:x"
    [] OTHER -> None

\* url_pattern: a url(...) with the suffix of a font file
IsFontUrl(t) == t \in {"src:url(/f.woff2);", "src:url(/g.ttf);"}

\* lines 55-63
FontType(url) ==
  CASE url = "/f.woff2" -> "font/woff2"
    [] url = "/g.ttf" -> "font/ttf"
    [] OTHER -> None

\* lines 66-74; the URLs of the texts start with "/", which lines 40-41
\* keep as they are
FontDirective(f, t) ==
  PreloadDirective(UrlOf(t), "font", FontType(UrlOf(t)), TRUE, "layout", f)

\* re.findall(url_pattern, face_content): the font URLs of the tokens
\* k..e of s, in order
RECURSIVE FontUrlsFrom(_, _, _, _)
FontUrlsFrom(f, s, k, e) ==
  IF k > e THEN <<>>
  ELSE (IF IsFontUrl(s[k]) THEN <<FontDirective(f, s[k])>> ELSE <<>>)
       \o FontUrlsFrom(f, s, k + 1, e)

\* re.finditer(font_face_pattern, css_content): the blocks from token i on
RECURSIVE FontsFrom(_, _, _)
FontsAt(f, s, i, e) ==
  IF e = 0 THEN FontsFrom(f, s, i + 1)
  ELSE FontUrlsFrom(f, s, i + 1, e - 1) \o FontsFrom(f, s, e + 1)

FontsFrom(f, s, i) ==
  IF i > Len(s) THEN <<>> ELSE FontsAt(f, s, i, FontMatchEnd(s, i))

extract_fonts_from_css(f, s) == FontsFrom(f, s, 1)

\* background(?:-image)?:\s*url(...)
IsBackground(t) ==
  t \in {"background:url(/bg.png);", "background-image:url(img/h.jpg);",
         "background:url(data:x);"}

\* the words of critical_selectors that a token of a selector contains
CriticalOf(t) ==
  CASE Lower(t) = ".hero" -> {"hero"}
    [] Lower(t) = ".header" -> {"header"}
    [] OTHER -> {}

InSelector(selector, word) == \E k \in 1..Len(selector) : word \in CriticalOf(selector[k])

critical_selectors ==
  {"hero", "banner", "header", "masthead", "jumbotron", "above-fold", "splash"}

\* lines 96-102
ImageHref(url) == IF url = "img/h.jpg" THEN "/img/h.jpg" ELSE url

\* lines 89-111: the directive of a rule with the selector and the URL
CriticalImage(f, selector, url) ==
  IF (\E word \in critical_selectors : InSelector(selector, word)) /\ url # "data:x"
  THEN <<PreloadDirective(ImageHref(url), "image", None, FALSE,
                          IF InSelector(selector, "header") THEN "layout" ELSE "page", f)>>
  ELSE <<>>

\* the last background declaration among the tokens b..e of s, or 0: the
\* [^}]* before it is greedy
LastBackground(s, b, e) ==
  IF \E k \in b..e : IsBackground(s[k])
  THEN CHOOSE k \in b..e : IsBackground(s[k]) /\ \A j \in (k + 1)..e : ~IsBackground(s[j])
  ELSE 0

\* re.finditer(rule_pattern, css_content) from token i on: the selector is
\* the text from i to the next "{" at b, the block ends at the next "}" at
\* e, and g is the background declaration of the block
RECURSIVE RulesFrom(_, _, _)
RuleWith(f, s, i, b, e, g) ==
  IF g = 0 THEN RulesFrom(f, s, b + 1)
  ELSE CriticalImage(f, SubSeq(s, i, b - 1), UrlOf(s[g])) \o RulesFrom(f, s, e + 1)

RuleTo(f, s, i, b, e) ==
  IF e = 0 THEN <<>> ELSE RuleWith(f, s, i, b, e, LastBackground(s, b + 1, e - 1))

RuleAt(f, s, i, b) ==
  IF b = 0 THEN <<>> ELSE RuleTo(f, s, i, b, FirstFrom(s, b + 1, {"}"}))

RulesFrom(f, s, i) ==
  IF i > Len(s) THEN <<>>
  ELSE IF s[i] = "{" THEN RulesFrom(f, s, i + 1)
  ELSE RuleAt(f, s, i, FirstFrom(s, i + 1, {"{"}))

extract_critical_images_from_css(f, s) == RulesFrom(f, s, 1)

\* hero_img_pattern, lines 121: the words of its alternation
PageHeroWords == {"hero", "banner", "featured"}

\* src=["']([^"']+)["'][^>]*> with the attribute at p: the end of the match,
\* or 0
SrcEnd(s, p) ==
  IF /\ p + 3 <= Len(s)
     /\ Lower(s[p]) = " src=" /\ s[p + 1] = QUOTE /\ s[p + 2] # QUOTE
     /\ FirstFrom(s, p + 2, {QUOTE}) # 0
  THEN FirstFrom(s, FirstFrom(s, p + 2, {QUOTE}) + 1, {GT})
  ELSE 0

\* the src attribute the match uses after the class value that ends at q:
\* the last one that gives a match, none of the tokens between being ">"
LastSrc(s, q) ==
  LET ok == {p \in (q + 1)..Len(s) :
               SrcEnd(s, p) # 0 /\ \A j \in (q + 1)..(p - 1) : s[j] # GT}
  IN IF ok = {} THEN 0 ELSE CHOOSE p \in ok : \A p2 \in ok : p2 <= p

\* class=["'][^"']*(?:hero|...)[^"']*["'] with the attribute at c: the
\* closing quote, or 0
HeroClassEnd(s, c) ==
  IF /\ c + 1 <= Len(s)
     /\ Lower(s[c]) = " class=" /\ s[c + 1] = QUOTE
     /\ FirstFrom(s, c + 2, {QUOTE}) # 0
     /\ \E j \in (c + 2)..(FirstFrom(s, c + 2, {QUOTE}) - 1) : Lower(s[j]) \in PageHeroWords
  THEN FirstFrom(s, c + 2, {QUOTE})
  ELSE 0

\* the src attribute of the match of hero_img_pattern that starts at token
\* i of s, or 0: the class attribute is the last one that gives a match
HeroSrc(s, i) ==
  LET ok == {c \in (i + 1)..Len(s) :
               /\ HeroClassEnd(s, c) # 0
               /\ \A j \in (i + 1)..(c - 1) : s[j] # GT
               /\ LastSrc(s, HeroClassEnd(s, c)) # 0}
  IN IF Lower(s[i]) # "<img" \/ ok = {} THEN 0
     ELSE LastSrc(s, HeroClassEnd(s, CHOOSE c \in ok : \A c2 \in ok : c2 <= c))

\* lines 125-133; the src of the texts is one token, "a.png" or a path
\* from the root
PageHref(src) == IF src = "a.png" THEN "/a.png" ELSE src

HeroDirective(f, src) ==
  IF src = "data:x" THEN <<>>
  ELSE <<PreloadDirective(PageHref(src), "image", None, FALSE, "page", f)>>

\* re.finditer(hero_img_pattern, content) from token i on
RECURSIVE HeroesFrom(_, _, _)
HeroesAt(f, s, i, p) ==
  IF p = 0 THEN HeroesFrom(f, s, i + 1)
  ELSE HeroDirective(f, s[p + 2]) \o HeroesFrom(f, s, SrcEnd(s, p) + 1)

HeroesFrom(f, s, i) ==
  IF i > Len(s) THEN <<>> ELSE HeroesAt(f, s, i, HeroSrc(s, i))

analyze_page_specific_resources(f, s) == HeroesFrom(f, s, 1)

\* lines 150-162: the link tag of a directive
LinkTag(p) ==
  [rel |-> "preload", href |-> p.href, as |-> p.as_type, type |-> p.type_attr,
   crossorigin |-> p.crossorigin]

\* generate_preload_html, lines 145-167: the tags of the directives of the
\* scopes in want, without those whose href has been seen
RECURSIVE TagsOf(_, _, _)
TagsOf(preloads, seen, want) ==
  IF preloads = <<>> THEN <<>>
  ELSE IF Head(preloads).href \in seen THEN TagsOf(Tail(preloads), seen, want)
  ELSE (IF (Head(preloads).scope = "layout") = want THEN <<LinkTag(Head(preloads))>> ELSE <<>>)
       \o TagsOf(Tail(preloads), seen \cup {Head(preloads).href}, want)

generate_preload_html(preloads) ==
  [layout |-> TagsOf(preloads, {}, TRUE), page |-> TagsOf(preloads, {}, FALSE)]

\* lines 208-216
PreloadSummary(ps) ==
  LET Layout(p) == p.scope = "layout"
      Page(p) == p.scope = "page"
      Font(p) == p.as_type = "font"
      Image(p) == p.as_type = "image"
  IN [total_preloads |-> Len(ps), layout_scope |-> Count(ps, Layout),
      page_scope |-> Count(ps, Page), fonts |-> Count(ps, Font),
      images |-> Count(ps, Image)]

\* lines 203-217: what analyze_project returns
PreloadReport(ps, by_page) ==
  [preloads |-> ps, page_specific |-> by_page,
   generated_html |-> generate_preload_html(ps), summary |-> PreloadSummary(ps)]

\* the project of the preload generator, in the order of the directory walk
PreWalk ==
  <<"src/styles/global.css", "src/styles/theme.scss", "src/pages/index.astro",
    "src/pages/about.astro">>

PreFiles == Range(PreWalk)

FontFaceText == <<"@font-face", "{", "src:url(/f.woff2);", "}">>
TwoFontsText ==
  <<"@font-face", "{", "src:url(/f.woff2);", "}", "@FONT-FACE", SPACE, "{",
    "src:url(/f.woff2);", "src:url(/g.ttf);", "}">>
HeroRuleText == <<".hero", "{", "background:url(/bg.png);", "}">>
HeaderHeroText ==
  <<".header", "{", "background:url(/bg.png);", "}", ".hero", "{",
    "background:url(/bg.png);", "background-image:url(img/h.jpg);", "}">>
CardRuleText ==
  <<".card", "{", "x", "}", "x", "{", "background:url(/bg.png);", "}", ".hero", "{",
    "background:url(data:x);", "}">>
HeroSrcText ==
  <<"<img", " class=", QUOTE, "hero", QUOTE, " src=", QUOTE, "/bg.png", QUOTE, GT>>
TwoHeroText ==
  <<"<img", " class=", QUOTE, "x", "HERO", QUOTE, " src=", QUOTE, "a.png", QUOTE, SLASH, GT,
    "<img", " src=", QUOTE, "a.png", QUOTE, " class=", QUOTE, "hero", QUOTE, GT>>

PreTexts(f) ==
  CASE f = "src/styles/global.css" ->
         {FontFaceText, TwoFontsText, HeroRuleText, HeaderHeroText, PlainText}
    [] f = "src/styles/theme.scss" -> {FontFaceText, HeroRuleText, CardRuleText, Absent}
    [] f = "src/pages/index.astro" -> {HeroSrcText, TwoHeroText, ImgText}
    [] f = "src/pages/about.astro" -> {HeroSrcText, PlainText, Absent}

PreProject(t) == [f \in {g \in PreFiles : t[g] # Absent} |-> t[f]]

PreSuffix(f) ==
  CASE f = "src/styles/global.css" -> ".css"
    [] f = "src/styles/theme.scss" -> ".scss"
    [] OTHER -> ".astro"

\* src_path.rglob("*" + suffix)
PreGlob(d, suffix) ==
  LET Sel(f) == f \in DOMAIN d /\ PreSuffix(f) = suffix
  IN SelectSeq(PreWalk, Sel)

\* lines 182 and 193: the stylesheets, and then the pages
css_files(d) == PreGlob(d, ".css") \o PreGlob(d, ".scss")

page_files(d) == PreGlob(d, ".astro")

InitPreloads ==
  /\ \E t \in [PreFiles -> UNION {PreTexts(f) : f \in PreFiles}] :
       /\ \A f \in PreFiles : t[f] \in PreTexts(f)
       /\ disk = PreProject(t)
  /\ at_start = disk
  /\ unreadable \in {{}} \cup {{f} : f \in DOMAIN disk}
  /\ pre_todo = css_files(disk) \o page_files(disk)
  /\ all_preloads = <<>>
  /\ page_specific = <<>>
  /\ pre_warnings = <<>>
  /\ pre_report = <<>>
  /\ analyzer = 0 /\ findings = <<>> /\ summary = <<>> /\ warnings = <<>>
  /\ backups = <<>> /\ backup_dir = FALSE
  /\ clock = 0 /\ run = 0 /\ todo = <<>> /\ cur = None /\ pc = "idle"
  /\ content = <<>> /\ all_changes = <<>> /\ applied = <<>>
  /\ result = NewResult(None) /\ results = NewResults(FALSE)
  /\ log = <<>> /\ faults = 0

\* what the preload generator leaves alone
outside_preloads == <<run_vars, rule_vars, analysis_vars, js_vars, main_vars>>

\* the directives of the stylesheet f
FromCss(f, s) == extract_fonts_from_css(f, s) \o extract_critical_images_from_css(f, s)

\* lines 184-188: the next stylesheet is read
PreCss ==
  /\ pre_todo # <<>> /\ PreSuffix(Head(pre_todo)) # ".astro"
  /\ Head(pre_todo) \notin unreadable
  /\ all_preloads' = all_preloads \o FromCss(Head(pre_todo), disk[Head(pre_todo)])
  /\ pre_todo' = Tail(pre_todo)
  /\ UNCHANGED <<page_specific, pre_warnings, pre_report, outside_preloads>>

\* page_specific[...] = ..., when the page has directives
WithPage(by_page, f, page_preloads) ==
  IF page_preloads # <<>> THEN Append(by_page, <<f, page_preloads>>) ELSE by_page

\* lines 196-200: the next page is read
PrePage ==
  /\ pre_todo # <<>> /\ PreSuffix(Head(pre_todo)) = ".astro"
  /\ Head(pre_todo) \notin unreadable
  /\ page_specific' =
       WithPage(page_specific, Head(pre_todo),
                analyze_page_specific_resources(Head(pre_todo), disk[Head(pre_todo)]))
  /\ pre_todo' = Tail(pre_todo)
  /\ UNCHANGED <<all_preloads, pre_warnings, pre_report, outside_preloads>>

\* lines 189-190 and 201-202: the file cannot be read, a warning goes to
\* stderr
PreReadFails ==
  /\ pre_todo # <<>>
  /\ Head(pre_todo) \in unreadable
  /\ pre_warnings' = Append(pre_warnings, Head(pre_todo))
  /\ pre_todo' = Tail(pre_todo)
  /\ UNCHANGED <<all_preloads, page_specific, pre_report, outside_preloads>>

\* lines 204-218: the snippets and the summary; the report is returned
PreReturn ==
  /\ pre_todo = <<>> /\ pre_report = <<>>
  /\ pre_report' = PreloadReport(all_preloads, page_specific)
  /\ UNCHANGED <<pre_todo, all_preloads, page_specific, pre_warnings, outside_preloads>>

PreReported == pre_report # <<>>

IdlePreloads ==
  /\ pre_todo = <<>> /\ all_preloads = <<>> /\ page_specific = <<>>
  /\ pre_warnings = <<>> /\ pre_report = <<>>

IdleMore == IdleJs /\ IdleMain /\ IdlePreloads

(***************************************************************************)
(* Spec: the transform runs over the project.                              *)
(***************************************************************************)
Init == InitRun /\ IdleRules /\ IdleAnalysis /\ IdleMore

Next ==
  \/ NextFile
  \/ ReadAndRewrite
  \/ ReadFails
  \/ Mkdir
  \/ MkdirFails
  \/ Copy
  \/ CopyFails
  \/ Write
  \/ WriteFails
  \/ Return
  \/ Finish
  \/ StartRun
  \/ Tick

Spec == Init /\ [][Next]_vars

(***************************************************************************)
(* SpecRules: the rewrite rules as functions of a text.                    *)
(***************************************************************************)
RulesInit == InitRules /\ IdleRun /\ IdleAnalysis /\ IdleMore

RulesNext ==
  \/ RunFetchpriority
  \/ RunLoadingLazy
  \/ RunDecodingAsync
  \/ RunFontDisplay
  \/ RunDefer
  \/ RunPolicies

SpecRules == RulesInit /\ [][RulesNext]_vars

(***************************************************************************)
(* SpecRound: a transform run with include_risky in which nothing fails,   *)
(* and then the analysis of the project the run left.                      *)
(***************************************************************************)
RoundInit == InitRound /\ IdleRules /\ IdleAnalysis /\ IdleJs /\ IdlePreloads

RoundNext ==
  \/ ApplyStarts
  \/ NextFile
  \/ ReadAndRewrite
  \/ Mkdir
  \/ Copy
  \/ Write
  \/ Return
  \/ Finish
  \/ ApplyPrints
  \/ AnalyzeAfter
  \/ AnalyzeNoRoot
  \/ AnalyzeStarts
  \/ RunAnalyzer
  \/ Summarize
  \/ AnalyzePrints

SpecRound == RoundInit /\ [][RoundNext]_vars

(***************************************************************************)
(* SpecPass: one pass of the rules of an .astro file over a text.          *)
(***************************************************************************)
PassInit == InitPass /\ IdleRun /\ IdleAnalysis /\ IdleMore

PassNext ==
  \/ RunPassDefault
  \/ RunPassRisky

SpecPass == PassInit /\ [][PassNext]_vars

(***************************************************************************)
(* SpecTwice: the rules of an .astro file on a text, as two runs with the  *)
(* same policy apply them.                                                 *)
(***************************************************************************)
TwiceInit == InitTwice /\ IdleRun /\ IdleAnalysis /\ IdleMore

TwiceNext ==
  \/ RunDefaultTwice
  \/ RunRiskyTwice

SpecTwice == TwiceInit /\ [][TwiceNext]_vars

(***************************************************************************)
(* SpecAnalysis: analyze_project over a project.                           *)
(***************************************************************************)
AnalysisInit == InitAnalysis /\ IdleRules /\ IdleMore

AnalysisNext ==
  \/ RunAnalyzer
  \/ AnalyzerFails
  \/ Summarize

SpecAnalysis == AnalysisInit /\ [][AnalysisNext]_vars

(***************************************************************************)
(* SpecJs: detect_js_patterns.py's analyze_project over a project.         *)
(***************************************************************************)
JsInit == InitJs /\ IdleRules /\ IdleMain /\ IdlePreloads

JsNext ==
  \/ JsScan
  \/ JsSkip
  \/ JsReadFails
  \/ JsReturn

SpecJs == JsInit /\ [][JsNext]_vars

(***************************************************************************)
(* SpecMain: one process of analyze.py or apply_optimizations.py, from     *)
(* main() to its exit.                                                     *)
(***************************************************************************)
MainInit == InitMain /\ IdleRules /\ IdleAnalysis /\ IdleJs /\ IdlePreloads

MainNext ==
  \/ AnalyzeNoRoot
  \/ AnalyzeStarts
  \/ RunAnalyzer
  \/ Summarize
  \/ AnalyzePrints
  \/ ApplyNoPath
  \/ ApplyDryRun
  \/ ApplyStarts
  \/ NextFile
  \/ ReadAndRewrite
  \/ ReadFails
  \/ Mkdir
  \/ MkdirFails
  \/ Copy
  \/ CopyFails
  \/ Write
  \/ WriteFails
  \/ Return
  \/ Finish
  \/ Tick
  \/ ApplyPrints

SpecMain == MainInit /\ [][MainNext]_vars

(***************************************************************************)
(* SpecPreloads: generate_preloads.py's analyze_project over a project.    *)
(***************************************************************************)
PreloadsInit == InitPreloads /\ IdleRules /\ IdleJs /\ IdleMain

PreloadsNext ==
  \/ PreCss
  \/ PrePage
  \/ PreReadFails
  \/ PreReturn

SpecPreloads == PreloadsInit /\ [][PreloadsNext]_vars

(***************************************************************************)
(* Properties.                                                             *)
(***************************************************************************)
\* what the log of the current run and its results say
Happened(kind, f) == <<kind, f>> \in Range(log)

Times(kind, f) == Cardinality({i \in 1..Len(log) : log[i] = <<kind, f>>})

Processed == Range(results.files_processed)

Modified == {results.files_modified[i].file : i \in 1..Len(results.files_modified)}

\* C1: every rewrite rule, applied to its own output, returns that output
\* unchanged and reports zero changes.
C1_Idempotent ==
  (phase = "output" /\ rule \in Rules) =>
    (outs[2].text = outs[1].text /\ outs[2].changes = <<>>)

\* a rule that changed its input has been applied to its own output
C1_Witness ==
  /\ phase = "output" /\ rule \in Rules
  /\ outs[1].changes # <<>>
  /\ outs[2].changes = <<>>

\* C2: in every transform run, failing ones included, a processed file is in
\* files_modified iff a backup was created for it in the run, and iff its
\* content on disk changed in the run; the result of a file has a backup
\* exactly when its changes are not empty.
C2_BackupInvariant ==
  /\ \A f \in Processed :
       /\ (f \in Modified) <=> Happened("backup", f)
       /\ (f \in Modified) <=> (disk[f] # at_start[f])
  /\ pc = "return" => ((result.backup # NoBackup) <=> (result.changes # <<>>))

\* C3: the backup of a file is taken at most once in a run, exactly once
\* and earlier than the write for a file that is written; the file enters
\* the results after its backup and its write, as the last thing that
\* happens to it.
C3_BackupOnceBeforeWrite ==
  /\ \A f \in DOMAIN disk : Times("backup", f) <= 1
  /\ \A j \in 1..Len(log) :
       /\ log[j][1] = "write" =>
            /\ Times("backup", log[j][2]) = 1
            /\ \E i \in 1..(j - 1) : log[i] = <<"backup", log[j][2]>>
       /\ log[j][1] = "report" =>
            \A i \in (j + 1)..Len(log) : log[i][2] # log[j][2]
  /\ \A f \in Processed : Happened("report", f)
  /\ \A f \in Modified : Happened("backup", f) /\ Happened("write", f)

\* a file was backed up, written and reported
C3_Witness ==
  \E f \in Modified : Happened("write", f) /\ Happened("report", f)

\* C4: when the backup of a file fails (mkdir or the copy raises), the file
\* keeps its content, the failure is the error of the file, and the file is
\* not in files_modified.
C4_FailClosed ==
  \A f \in DOMAIN disk :
    Happened("backup failed", f) =>
      /\ disk[f] = at_start[f]
      /\ f \notin Modified
      /\ (cur = f => result.error # None)
      /\ (f \in Processed =>
            \E i \in 1..Len(results.errors) : results.errors[i].file = f)

\* the backup of a file failed and the file was reported
C4_Witness ==
  \E f \in Processed : Happened("backup failed", f) /\ disk[f] = at_start[f]

\* C5: no two files modified in a run have the same backup path, and a
\* backup that exists is never overwritten or deleted.
C5_CollisionFree ==
  /\ [](\A i, j \in 1..Len(results.files_modified) :
          i # j => results.files_modified[i].backup # results.files_modified[j].backup)
  /\ [][\A p \in DOMAIN backups : p \in DOMAIN backups' /\ backups'[p] = backups[p]]_vars

\* C6: every file whose content differs from its content at the start of
\* the run has a backup that holds its content at the start of the run.
C6_Reversible ==
  \A f \in DOMAIN disk :
    disk[f] # at_start[f] =>
      \E p \in DOMAIN backups : p[1] = Name(f) /\ backups[p] = at_start[f]

\* the rules leave the text of the file as it is
Unchanged(f) ==
  Transform(Suffix(f), at_start[f], results.include_risky).text = at_start[f]

\* what optimize_file may do to the file f when the text changes: a backup
\* directory, a backup, a write, changes or a backup in its result
Touched(f) ==
  \/ \E kind \in {"mkdir", "backup", "backup failed", "write", "write failed"} :
       Happened(kind, f)
  \/ disk[f] # at_start[f]
  \/ f \in Modified
  \/ (cur = f /\ (result.changes # <<>> \/ result.backup # NoBackup))

\* C7: when no rule changes the text of a file, optimize_file creates no
\* backup directory and no backup, does not write the file, and returns a
\* result with no changes and no backup. (Stated from the effect: a file
\* that any of this happened to is a file whose text the rules change.)
C7_NoChangeNoEffect ==
  \A f \in DOMAIN disk : Touched(f) => ~(Happened("begin", f) /\ Unchanged(f))

\* a run is over in which a file was read and left alone, and no backup
\* directory exists
C7_Witness ==
  /\ pc = "done" /\ ~backup_dir
  /\ \E f \in Processed : Unchanged(f) /\ ~Happened("read failed", f)

DeferCount(s) == Cardinality({i \in 1..Len(s) : s[i] = " defer"})

\* C8: with include_risky false the risky rule is not called on any file,
\* no change is described as its change, and no file gains a defer.
C8_RiskGating ==
  ~results.include_risky =>
    /\ "add_defer_to_external_scripts" \notin Range(applied)
    /\ DeferDesc \notin Range(all_changes)
    /\ DeferDesc \notin Range(result.changes)
    /\ \A i \in 1..Len(results.files_modified) :
         DeferDesc \notin Range(results.files_modified[i].changes)
    /\ \A f \in DOMAIN disk : DeferCount(disk[f]) <= DeferCount(at_start[f])

\* a run without include_risky is over that read a file with an external
\* script
C8_Witness ==
  /\ ~results.include_risky /\ pc = "done"
  /\ \E f \in Processed : at_start[f] = ScriptText /\ ~Happened("read failed", f)

IsPrefix(a, b) == Len(a) <= Len(b) /\ SubSeq(b, 1, Len(a)) = a

NotDefer(t) == t # " defer"

\* C9: on the same text, the changes with include_risky false are a prefix
\* of the changes with include_risky true, and the text with include_risky
\* true is the text with include_risky false but for the defers.
C9_RiskMonotone ==
  (phase = "output" /\ rule = "optimize_file") =>
    /\ IsPrefix(outs[1].changes, outs[2].changes)
    /\ SelectSeq(outs[2].text, NotDefer) = outs[1].text

\* a text on which the safe rules and the risky rule make changes
C9_Witness ==
  /\ phase = "output" /\ rule = "optimize_file"
  /\ outs[1].changes # <<>>
  /\ Len(outs[2].changes) > Len(outs[1].changes)

\* C10: a report that analyze_project returns has at most one finding for
\* every type and file.
C10_Dedup ==
  Reported =>
    \A i, j \in 1..Len(findings) :
      (findings[i].type = findings[j].type /\ findings[i].file = findings[j].file) => i = j

\* the summary sm counts the findings fs by severity
SeverityConsistent(fs, sm) ==
  /\ sm.total = Len(fs)
  /\ \A v \in {"high", "medium", "low"} :
       sm.by_severity[v] = Cardinality({i \in 1..Len(fs) : fs[i].severity = v})
  /\ sm.by_severity.high + sm.by_severity.medium + sm.by_severity.low = sm.total

\* the summary sm counts the findings fs by risk and by auto_fixable
RiskConsistent(fs, sm) ==
  /\ {"by_risk", "auto_fixable"} \subseteq DOMAIN sm
  /\ \A v \in {"safe", "risky"} :
       sm.by_risk[v] = Cardinality({i \in 1..Len(fs) : fs[i].risk = v})
  /\ sm.by_risk.safe + sm.by_risk.risky = sm.total
  /\ sm.auto_fixable = Cardinality({i \in 1..Len(fs) : fs[i].auto_fixable})

\* C11: in the report of analyze.py and in the report of
\* detect_js_patterns.py, summary.total is the number of findings, every
\* by_severity and by_risk bucket is the number of findings with that
\* value, the severity buckets and the risk buckets each sum to total, and
\* auto_fixable is the number of findings flagged auto_fixable, also when
\* an analyzer or a read failed.
C11_SummaryConsistent ==
  /\ Reported =>
       SeverityConsistent(findings, summary) /\ RiskConsistent(findings, summary)
  /\ JsReported =>
       /\ SeverityConsistent(js_report.findings, js_report.summary)
       /\ RiskConsistent(js_report.findings, js_report.summary)

\* the places of the text s where the tokens of ins stand
Occurrences(s, ins) ==
  {i \in 1..(Len(s) - Len(ins) + 1) : SubSeq(s, i, i + Len(ins) - 1) = ins}

\* the tokens that open a construct a rule looks for
Openers == {"<img", "<image", "<script", "@font-face"}

\* the img tag that starts at token i of s is closed by a ">" of its own and
\* has neither a loading attribute nor a hero indicator
PlainImgAt(s, i) ==
  /\ Lower(s[i]) = "<img"
  /\ ImgMatchEnd(s, i) # 0
  /\ \A j \in (i + 1)..ImgMatchEnd(s, i) : Lower(s[j]) \notin Openers
  /\ ~HasLower(SubSeq(s, i, ImgMatchEnd(s, i)), "loading=")
  /\ \A ind \in hero_indicators : ~HasLower(SubSeq(s, i, ImgMatchEnd(s, i)), ind)

\* the only construct of s that a rule looks for is one such img tag
PlainImgOnly(s) ==
  /\ Cardinality({i \in 1..Len(s) : Lower(s[i]) \in Openers}) = 1
  /\ \E i \in 1..Len(s) : PlainImgAt(s, i)

NotSwap(t) == t \notin Range(FontDisplayInsert)

\* the @font-face block of s that starts at token i has no font-display
LacksDisplay(s, i) ==
  FontMatchEnd(s, i) # 0 /\ ~HasLower(SubSeq(s, i, FontMatchEnd(s, i)), "font-display")

\* in the block blk of the rewritten text, the inserted declaration stands
\* once, before the closing brace, and only where no other one is declared
FixedBlock(blk) ==
  /\ HasLower(blk, "font-display")
  /\ (\E k \in 1..Len(blk) : ~NotSwap(blk[k])) =>
       /\ Occurrences(blk, FontDisplayInsert) = {Len(blk) - 1}
       /\ \A k \in 1..(Len(blk) - 2) : "font-display" \notin NeedlesOf(Lower(blk[k]))

\* out is the stylesheet s with a declaration inserted in every block that
\* lacked one, and with nothing else changed
FontFixed(s, out) ==
  /\ SelectSeq(out.text, NotSwap) = s
  /\ \A i \in 1..Len(out.text) :
       FontMatchEnd(out.text, i) # 0 => FixedBlock(SubSeq(out.text, i, FontMatchEnd(out.text, i)))
  /\ (\E i \in 1..Len(s) : LacksDisplay(s, i)) => FontDisplayDesc \in Range(out.changes)

\* the rule add_font_display_swap alone, on every text of the font family
FontRuleFixes ==
  (phase = "output" /\ rule = "add_font_display_swap") => FontFixed(input, outs[1])

\* the stylesheets of the project
Stylesheets == {f \in DOMAIN disk : Suffix(f) \in {".css", ".scss"}}

\* C13: for every stylesheet, the transform inserts font-display: swap;
\* before the closing brace of each @font-face block that lacks a
\* font-display and leaves the other blocks as they are, and the report of
\* the detection has a font_display finding of severity medium for every
\* stylesheet with an @font-face block that lacks a font-display.
C13_FontDisplay ==
  (Reported /\ "analyze_fonts" \notin Range(warnings)) =>
    \A f \in Stylesheets :
      /\ FontFixed(disk[f], Transform(Suffix(f), disk[f], FALSE))
      /\ (\E i \in 1..Len(disk[f]) : LacksDisplay(disk[f], i)) =>
           \E x \in Range(findings) :
             x.type = "font_display" /\ x.severity = "medium" /\ x.file = f

\* the ends of the third-party script tags of s from token i on, leftmost
\* first and not overlapping, in whose text neither defer nor async occurs
RECURSIVE BareScriptEnds(_, _)
BareScriptEndsAt(s, i, e) ==
  IF e = 0 THEN BareScriptEnds(s, i + 1)
  ELSE (IF HasLower(SubSeq(s, i, e), "defer") \/ HasLower(SubSeq(s, i, e), "async")
        THEN {} ELSE {e})
       \cup BareScriptEnds(s, e + 1)

BareScriptEnds(s, i) ==
  IF i > Len(s) THEN {} ELSE BareScriptEndsAt(s, i, ScriptMatchEnd(s, i))

\* s with a defer before each of the closing tokens at the places in ends
RECURSIVE WithDefer(_, _, _)
WithDefer(s, ends, k) ==
  IF k > Len(s) THEN <<>>
  ELSE (IF k \in ends THEN <<" defer", s[k]>> ELSE <<s[k]>>) \o WithDefer(s, ends, k + 1)

NoImg(s) == \A k \in 1..Len(s) : Lower(s[k]) \notin {"<img", "<image"}

FixTokens ==
  {" loading=", " decoding=", " fetchpriority=", " defer", "\n  font-display: swap;\n"}

\* the end of the tag or block that opens at token i of s: its closing
\* token, or the end of the text
ConstructEnd(s, i) ==
  OrElse(FirstFrom(s, i + 1, {IF Lower(s[i]) = "@font-face" THEN "}" ELSE GT}), Len(s))

\* no tag or @font-face block of s holds a fix twice
OnceEach(s) ==
  \A i \in 1..Len(s) :
    Lower(s[i]) \in Openers =>
      \A t \in FixTokens : Cardinality({k \in i..ConstructEnd(s, i) : s[k] = t}) <= 1

\* the run has modified no file, counted no change and made no backup
Quiet ==
  /\ disk = at_start
  /\ results.total_changes = 0
  /\ results.files_modified = <<>>
  /\ result.backup = NoBackup
  /\ \A f \in DOMAIN disk : ~Happened("backup", f) /\ ~Happened("write", f)

\* run r is over without an error, under the policy risky
Succeeded(r, risky) ==
  run = r /\ pc = "done" /\ results.errors = <<>> /\ results.include_risky = risky

ForReadable(name) ==
  {x \in Range(Analyze(name, disk)) : x.file \in DOMAIN disk \ unreadable}

\* C16: when a file cannot be read during analyze_project, the report
\* still has the findings for every other file, those of the analyzer that
\* met the unreadable file included, and the analyzers after it still run.
C16_FileIsolation ==
  Reported =>
    \A k \in 1..Len(analyzers) :
      /\ ForReadable(analyzers[k]) \subseteq Range(findings)
      /\ ~Raises(analyzers[k], disk) =>
           Range(Analyze(analyzers[k], disk)) \subseteq Range(findings)

\* the analyzers that do not read the unreadable file have run and their
\* findings are in the report, for comparison
AnalyzersIsolated ==
  Reported =>
    \A k \in 1..Len(analyzers) :
      ~Raises(analyzers[k], disk) =>
        Range(Analyze(analyzers[k], disk)) \subseteq Range(findings)

\* the output report has a structured error entry for the file f
ErrorEntryFor(report, f) ==
  /\ "errors" \in DOMAIN report
  /\ \E i \in 1..Len(report.errors) : report.errors[i].file = f

\* the transform run is over: every file whose read, backup or write
\* failed has an entry in the errors of the results
TransformErrorsSurfaced ==
  pc = "done" =>
    \A f \in DOMAIN disk :
      (Happened("read failed", f) \/ Happened("backup failed", f)
         \/ Happened("write failed", f)) => ErrorEntryFor(results, f)

\* the report of analyze.py, as main prints it
AnalysisReport == [findings |-> findings, summary |-> summary]

\* the analysis is over: every analyzer that met an unreadable file has left
\* an entry for such a file in the report
AnalysisErrorsSurfaced ==
  Reported =>
    \A k \in 1..Len(analyzers) :
      Raises(analyzers[k], disk) =>
        \E f \in Reads(analyzers[k], disk) \cap unreadable : ErrorEntryFor(AnalysisReport, f)

\* the scan of the JS patterns is over: every scanned file that could not
\* be read has an entry in the report
JsErrorsSurfaced ==
  JsReported =>
    \A item \in Range(JsScanList(disk)) :
      (~Skipped(item) /\ item[1] \in unreadable) => ErrorEntryFor(js_report, item[1])

\* C17: every error of a file or rule that a run recovers from has a
\* structured entry in the output of the run: in the results of a
\* transform run, in the report of the analysis and in the report of the
\* JS-pattern detection.
C17_ErrorsSurfaced ==
  /\ TransformErrorsSurfaced
  /\ AnalysisErrorsSurfaced
  /\ JsErrorsSurfaced

\* no file has been analyzed, backed up or rewritten
NothingDone ==
  /\ disk = at_start
  /\ backups = <<>> /\ ~backup_dir
  /\ log = <<>> /\ results.files_processed = <<>>
  /\ analyzer = 0 /\ findings = <<>>

\* the process has not ended, or has ended with a code other than 0
NonZero == exit_code # 0

\* analyze.py alone, for comparison
AnalyzeConfigFatal ==
  (script = "analyze.py" /\ find_astro_root(at_start) = None) => (NonZero /\ NothingDone)

\* C18: in both modes, when no astro.config.* file is found for the given
\* path, the process exits with a code other than 0 and no file is
\* analyzed, backed up or rewritten.
C18_ConfigFatal ==
  find_astro_root(at_start) = None => (NonZero /\ NothingDone)

\* the directives of the pages of the report, in order
RECURSIVE OfPages(_)
OfPages(by_page) == IF by_page = <<>> THEN <<>> ELSE Head(by_page)[2] \o OfPages(Tail(by_page))

\* the places of the tags with the href in a snippet
TagsWith(snippet, href) == {i \in 1..Len(snippet) : snippet[i].href = href}

\* the first directive of ps with the href
FirstWith(ps, href) == ps[Min({i \in 1..Len(ps) : ps[i].href = href})]

\* every directive of ps has its href in exactly one link tag of html, in
\* the snippet of the scope of the first directive with the href
Rendered(ps, html) ==
  \A i \in 1..Len(ps) :
    /\ Cardinality(TagsWith(html.layout, ps[i].href))
         = (IF FirstWith(ps, ps[i].href).scope = "layout" THEN 1 ELSE 0)
    /\ Cardinality(TagsWith(html.page, ps[i].href))
         = (IF FirstWith(ps, ps[i].href).scope = "layout" THEN 0 ELSE 1)

\* the directives of the stylesheets alone, for comparison
CssRendered == PreReported => Rendered(pre_report.preloads, pre_report.generated_html)

\* C19: every directive the extraction produced, for the fonts and the
\* critical background images of the stylesheets and for the hero images
\* of the pages, is rendered in generated_html, one link tag for every
\* href, in the layout snippet or in the page snippet as the scope of the
\* first directive with the href says.
C19_AllRendered ==
  PreReported =>
    Rendered(pre_report.preloads \o OfPages(pre_report.page_specific),
             pre_report.generated_html)

\* the tag that opens at token i of s has no ">" of its own: the text ends
\* before one, or another construct opens before the next one
Truncated(s, i) ==
  \/ FirstFrom(s, i + 1, {GT}) = 0
  \/ \E j \in (i + 1)..(FirstFrom(s, i + 1, {GT}) - 1) : Lower(s[j]) \in Openers

\* every tag of s that opens with one of the tokens in opens is truncated
AllTruncated(s, opens) ==
  \A i \in 1..Len(s) : Lower(s[i]) \in opens => Truncated(s, i)

\* the rules on img tags alone, for comparison: a text whose img tags have
\* no ">" at all is left as it is
UnclosedImgKept ==
  (phase = "output" /\ rule = "two runs"
     /\ \A i \in 1..Len(input) :
          Lower(input[i]) \in {"<img", "<image"} => FirstFrom(input, i + 1, {GT}) = 0) =>
    (outs[1].text = input /\ outs[1].changes = <<>>)

\* C20: a rewrite rule applied to a tag that is truncated, the next ">" of
\* the text being that of another construct, leaves the text as it is and
\* reports no change: the rules of the default policy on a text whose img
\* tags are all truncated, and the rules with include_risky on a text
\* whose img and script tags are all truncated.
C20_TruncatedKept ==
  /\ (phase = "output" /\ rule = "two runs"
        /\ AllTruncated(input, {"<img", "<image"})) =>
       (outs[1].text = input /\ outs[1].changes = <<>>)
  /\ (phase = "output" /\ rule = "two runs, include_risky"
        /\ AllTruncated(input, {"<img", "<image", "<script"})) =>
       (outs[1].text = input /\ outs[1].changes = <<>>)


\* the patterns a rewrite rule hands to re.sub
PatternsOf(r) ==
  CASE r = "add_fetchpriority_to_hero_images" -> {"hero_img", "hero_Image"}
    [] r = "add_loading_lazy_to_images" -> {"lazy"}
    [] r = "add_decoding_async_to_images" -> {"decoding"}
    [] r = "add_font_display_swap" -> {"font"}
    [] r = "add_defer_to_external_scripts" -> {"defer"}

\* the spans <<first, last>> of the matches of a pattern in s, from token i
\* on: leftmost and not overlapping
RECURSIVE SpansFrom(_, _, _)
SpansAt(pat, s, i, e) ==
  IF e = 0 THEN SpansFrom(pat, s, i + 1)
  ELSE {<<i, e>>} \cup SpansFrom(pat, s, e + 1)

SpansFrom(pat, s, i) ==
  IF i > Len(s) THEN {} ELSE SpansAt(pat, s, i, MatchEnd(pat, s, i))

\* the spans the rule r matches in s
Spans(r, s) == UNION {SpansFrom(pat, s, 1) : pat \in PatternsOf(r)}

\* the place just before token i of the text lies inside a matched span
Inside(spans, i) == \E sp \in spans : sp[1] < i /\ i <= sp[2]

\* out is s with tokens inserted inside the spans and nothing else: every
\* token of s is there, in order, from token i of s and token j of out on
RECURSIVE InsertedOnly(_, _, _, _, _)
InsertedOnly(s, out, spans, i, j) ==
  IF j > Len(out) THEN i > Len(s)
  ELSE \/ (i <= Len(s) /\ s[i] = out[j] /\ InsertedOnly(s, out, spans, i + 1, j + 1))
       \/ (Inside(spans, i) /\ InsertedOnly(s, out, spans, i, j + 1))

DescsOf(r) ==
  CASE r = "add_fetchpriority_to_hero_images" -> {HeroDesc("<img"), HeroDesc("<image")}
    [] r = "add_loading_lazy_to_images" -> {LazyDesc}
    [] r = "add_decoding_async_to_images" -> {DecodingDesc}
    [] r = "add_font_display_swap" -> {FontDisplayDesc}
    [] r = "add_defer_to_external_scripts" -> {DeferDesc}

\* the number of the edits of the rule r among the changes
EditsOf(r, changes) == Cardinality({i \in 1..Len(changes) : changes[i] \in DescsOf(r)})

\* the rules were called in the order of optimize_file, the risky one last
\* and with include_risky alone
FixedOrder ==
  (phase = "output" /\ rule = "optimize_file") =>
    /\ outs[1].applied = <<"add_fetchpriority_to_hero_images", "add_loading_lazy_to_images",
                           "add_decoding_async_to_images">>
    /\ outs[2].applied = Append(outs[1].applied, "add_defer_to_external_scripts")

\* no rule makes more edits in the pass than alone on the text the pass
\* started from
NoneTriggered ==
  (phase = "output" /\ rule = "optimize_file") =>
    \A r \in Range(outs[2].applied) :
      EditsOf(r, outs[2].changes) <= Len(ApplyRule(r, input).changes)

\* C22: the rules of an .astro file are applied in the order fetchpriority,
\* loading, decoding, defer (defer with include_risky alone), and no rule
\* makes an edit in the pass that it does not make alone on the original
\* text.
C22_OrderNoTrigger == FixedOrder /\ NoneTriggered


\* an operation of optimize_file on the file f raised in the current run
Failed(f) ==
  \E kind \in {"read failed", "backup failed", "write failed"} : Happened(kind, f)

\* the entries of errors that name the file f
ErrorsOf(f) == {i \in 1..Len(results.errors) : results.errors[i].file = f}

DirsOf(f) ==
  CASE f \in {"src/scripts/app.js", "src/scripts/distance.js"} -> <<"src", "scripts">>
    [] f = "src/node_modules/lib.js" -> <<"src", "node_modules">>
    [] f = "src/pages/index.astro" -> <<"src", "pages">>
    [] f = "src/index.html" -> <<"src">>

\* the file lies under a dependency or build directory
UnderExcludedDir(f) == Range(DirsOf(f)) \cap {"node_modules", "dist"} # {}

\* the files the report has a finding for
FilesFound == {js_report.findings[i].file : i \in 1..Len(js_report.findings)}

\* C24: the scan leaves out exactly the files under a directory named
\* node_modules or dist: when the report is returned, a readable file with
\* a JS pattern in it has a finding iff it lies under no such directory,
\* whatever its own name contains.
C24_ExcludesByDirectory ==
  JsReported =>
    \A f \in DOMAIN disk :
      (f \notin unreadable /\ analyze_file(f, disk[f]) # <<>>) =>
        (f \in FilesFound <=> ~UnderExcludedDir(f))

\* the half that holds: no file under node_modules or dist has a finding
ExcludedNotScanned ==
  JsReported => \A f \in DOMAIN disk : UnderExcludedDir(f) => f \notin FilesFound


\* the pattern definition of the name
PatternDef(name) == CHOOSE d \in Range(PATTERNS) : d.name = name

\* the js_pattern of index k is the first, in declared order, that matches
\* in s
FirstMatching(js_patterns, s, k) ==
  /\ js_patterns[k] \in Range(s)
  /\ \A j \in 1..(k - 1) : js_patterns[j] \notin Range(s)

\* the line of a finding of the js_patterns in s: 1 plus the newlines before
\* the first match of the first js_pattern that matches
LineOfFirst(js_patterns, s, line) ==
  \E k \in 1..Len(js_patterns) :
    /\ FirstMatching(js_patterns, s, k)
    /\ line = 1 + NewlinesBefore(s, Min({i \in 1..Len(s) : s[i] = js_patterns[k]}))

\* no two of the findings have the same pattern and file
OnePerPair(fs) ==
  \A i, j \in 1..Len(fs) :
    (fs[i].pattern = fs[j].pattern /\ fs[i].file = fs[j].file) => i = j

\* C25: a pattern definition gives at most one finding for a file, however
\* many of its js_patterns match and however often; the line of the finding
\* is 1 plus the number of newlines before the first match of the first
\* js_pattern, in declared order, that matches; and the report has at most
\* one finding for a pattern and a file.
C25_OncePerPattern ==
  /\ OnePerPair(all_findings)
  /\ \A i \in 1..Len(all_findings) :
       LineOfFirst(PatternDef(all_findings[i].pattern).js_patterns,
                   disk[all_findings[i].file], all_findings[i].line)
  /\ JsReported => (OnePerPair(js_report.findings) /\ js_report.findings = all_findings)

\* the report has a finding on line 2 of a file whose line 1 matches a later
\* js_pattern of the same definition, and a finding of a file where the
\* js_pattern matches twice
C25_Witness ==
  /\ JsReported
  /\ \E i \in 1..Len(js_report.findings) :
       /\ js_report.findings[i].line = 2
       /\ disk[js_report.findings[i].file] = <<".slideToggle", "\n", ".accordion">>
  /\ \E i \in 1..Len(js_report.findings) :
       disk[js_report.findings[i].file] = <<".accordion", "\n", ".accordion">>


\* the end of the tag that is open at token j of s: its first ">" outside
\* an attribute value in double quotes, or 0
RECURSIVE QuotedTagEnd(_, _, _)
QuotedTagEnd(s, j, in_value) ==
  IF j > Len(s) THEN 0
  ELSE IF s[j] = QUOTE THEN QuotedTagEnd(s, j + 1, ~in_value)
  ELSE IF s[j] = GT /\ ~in_value THEN j
  ELSE QuotedTagEnd(s, j + 1, in_value)

\* the text is one img tag, from "<img" to its ">"
OneImgTag(s) ==
  Len(s) >= 2 /\ Lower(s[1]) = "<img" /\ QuotedTagEnd(s, 2, FALSE) = Len(s)

\* the tag carries fetchpriority or a hero indicator
IsHero(tag) == \E ind \in hero_indicators : HasLower(tag, ind)

\* a pass of the rules over a text has returned
PassDone == phase = "output" /\ rule \in {"one pass", "one pass, include_risky"}

\* C26: in a pass over an .astro file, an img tag that carries fetchpriority
\* or a hero indicator is not given loading="lazy", and no tag is given
\* both fetchpriority="high" and loading="lazy".
C26_HeroNeverLazy ==
  (PassDone /\ OneImgTag(input)) =>
    /\ IsHero(input) => LazyDesc \notin Range(outs[1].changes)
    /\ ~(HeroDesc("<img") \in Range(outs[1].changes) /\ LazyDesc \in Range(outs[1].changes))

\* the half that holds: an img tag with no ">" inside an attribute value
HeroNeverLazyPlain ==
  (PassDone /\ OneImgTag(input) /\ FirstFrom(input, 1, {GT}) = Len(input)) =>
    /\ IsHero(input) => LazyDesc \notin Range(outs[1].changes)
    /\ ~(HeroDesc("<img") \in Range(outs[1].changes) /\ LazyDesc \in Range(outs[1].changes))


\* the files that errors names
Errored == {results.errors[i].file : i \in 1..Len(results.errors)}

\* the sum of the lengths of the change lists
RECURSIVE ChangesIn(_)
ChangesIn(modified) ==
  IF modified = <<>> THEN 0 ELSE Len(Head(modified).changes) + ChangesIn(Tail(modified))

\* the entries of files_modified that name the file f
ModifiedOf(f) ==
  {i \in 1..Len(results.files_modified) : results.files_modified[i].file = f}

\* C27: a processed file is modified (in files_modified, once, with a backup
\* and a change list that is not empty), or errored (in errors), or neither,
\* and never both; total_changes is the sum of the lengths of the change
\* lists in files_modified.
C27_OneTerminalState ==
  /\ \A i \in 1..Len(results.files_modified) :
       /\ results.files_modified[i].backup # NoBackup
       /\ results.files_modified[i].changes # <<>>
       /\ results.files_modified[i].file \in Processed
  /\ \A f \in Processed : Cardinality(ModifiedOf(f)) <= 1 /\ Cardinality(ErrorsOf(f)) <= 1
  /\ Modified \cap Errored = {}
  /\ Errored \subseteq Processed
  /\ results.total_changes = ChangesIn(results.files_modified)
  /\ ~(result.changes # <<>> /\ result.error # None)

\* a run is over with a modified file, a file with an error and a file that
\* is neither
C27_Witness ==
  /\ pc = "done"
  /\ Modified # {} /\ Errored # {}
  /\ Processed \ (Modified \cup Errored) # {}
  /\ results.total_changes > 0


\* the types of the findings that a rewrite rule fixes
FixedTypes == {"image_loading", "image_priority", "font_display", "script_blocking"}

\* the analysis that followed a transform run with include_risky, in which
\* nothing failed, has returned its report
AnalyzedAfter ==
  /\ script = "analyze.py" /\ Reported
  /\ pc = "done" /\ results.include_risky /\ results.errors = <<>>

\* C28: the analysis that follows a successful transform run with
\* include_risky reports no image_loading, image_priority, font_display or
\* script_blocking finding for a file the transform processed.
C28_DetectionAgrees ==
  AnalyzedAfter =>
    \A i \in 1..Len(findings) :
      findings[i].type \in FixedTypes => findings[i].file \notin Processed

\* the part that holds on the texts of the project: no font_display and no
\* script_blocking finding is left
FontsAndScriptsAgree ==
  AnalyzedAfter =>
    \A i \in 1..Len(findings) :
      findings[i].type \in {"font_display", "script_blocking"} =>
        findings[i].file \notin Processed


\* the text is one tag with no ">" before its end
OneTag(s) ==
  /\ Len(s) >= 2
  /\ Lower(s[1]) \in {"<img", "<image", "<script"}
  /\ FirstFrom(s, 1, {GT}) = Len(s)

\* out ends as the tag did, what was inserted being before the "/>" or the
\* ">" the tag ended with
TerminatorKept(tag, out) ==
  IF EndsSlashGT(tag)
  THEN EndsSlashGT(out) /\ IsPrefix(DropLast(tag, 2), out)
  ELSE out[Len(out)] = GT /\ IsPrefix(DropLast(tag, 1), out)

\* a rule that inserts an attribute has changed a text that is one tag
TagRewritten(rules) ==
  /\ phase = "output" /\ rule \in rules
  /\ OneTag(input)
  /\ outs[1].changes # <<>>

\* C29: a rule that inserts an attribute keeps the end of a well-formed
\* tag: a tag that ends with "/>" still does, the attribute being before
\* the slash, and a tag that ends with ">" still does.
C29_TerminatorKept ==
  TagRewritten({"add_fetchpriority_to_hero_images", "add_loading_lazy_to_images",
                "add_defer_to_external_scripts"}) =>
    TerminatorKept(input, outs[1].text)

\* the half that holds: add_loading_lazy_to_images and
\* add_decoding_async_to_images keep the end of the tag
ImgRulesKeepTerminator ==
  TagRewritten({"add_loading_lazy_to_images", "add_decoding_async_to_images"}) =>
    TerminatorKept(input, outs[1].text)

====
